---- MODULE Spec2Model ----
(***************************************************************************)
(* pdinklag/pm: the allocation-interception registry (MallocCallback),    *)
(* the allocation meter (MallocCounter), the duration meter (Stopwatch),   *)
(* the measurement phase (Phase) with the documents it gathers, the        *)
(* allocator shim (malloc_override.cpp), the phase that does nothing       *)
(* (NoopPhase) and the list of key=value pairs (Result).                   *)
(*                                                                         *)
(* The specifications share the variables and the steps of the member      *)
(* functions; each one lets the application make the calls of one part:    *)
(*   Spec        registry and allocation meters, with allocation events    *)
(*   SpecWatch   a stopwatch of its own, with the clock ticking            *)
(*   SpecPhase   start / pause / resume / stop of phases                   *)
(*   SpecGather  a phase that is written to and gathered, with allocation  *)
(*               events between and inside the calls                       *)
(*   SpecDoc     phases that are written to, appended and gathered         *)
(*   SpecShim    the entry points of the shim over the real allocator      *)
(*   SpecOff     registry and allocation meters built without PM_MALLOC    *)
(*   SpecNoop    a NoopPhase next to phases that measure                   *)
(*   SpecResult  a Result that values are added to, sorted and printed     *)
(*   SpecFlat    phases with data and children added to a Result           *)
(*   SpecFair    Spec, where a call that has begun goes on until it        *)
(*               returns                                                   *)
(*   SpecTwin    two meters of each kind driven side by side, the second   *)
(*               with pause in place of stop                               *)
(*   SpecMove    allocation meters that are moved from and assigned to     *)
(*   SpecThreads two threads calling the meters and raising events, with a *)
(*               switch possible between any two steps                     *)
(*   SpecTally   the shim with one allocation meter listening throughout   *)
(*                                                                         *)
(* One thread of control, except in SpecThreads where pc2 holds the calls   *)
(* of the thread that is not running.  Every member function is executed   *)
(* as a chain of                                                           *)
(* small steps kept in pc, the list of calls still to be executed (the     *)
(* head is the next one).  A new application call is accepted only when pc *)
(* is empty.  Allocation events reach the registry through notify_malloc / *)
(* notify_free either between two application calls, or from inside        *)
(* registry_.push_back when the vector reallocates (the shim's malloc/free *)
(* then run while critical_ is set).                                       *)
(*                                                                         *)
(* registry_ is created with reserve(32) (src/malloc_callback.cpp), so the *)
(* real vector reallocates from the 33rd simultaneous listener on; the     *)
(* model does not track the capacity and lets any push_back reallocate.    *)
(*                                                                         *)
(* uintmax_t / intmax_t are 64 bit wide; the modelled runs add at most     *)
(* 2 * MaxEvents bytes, or MaxCalls sizes below 2^SizeBits, so no          *)
(* accumulator wraps and plain integers are exact.                         *)
(***************************************************************************)
EXTENDS Integers, Sequences, FiniteSets, TLC

\* Bound of the model: the number of allocation events raised in one run.
MaxEvents == 2

\* The objects: allocation meters (MallocCounter) and plain listeners, i.e.
\* other classes derived from MallocCallback that call register_callback /
\* unregister_callback themselves (like TestCallback of test/pm_malloc.cpp).
Counters == {"c1", "c2"}
Plains == {"t1"}
Listeners == Counters \cup Plains
\* The byte counts the events carry.
Bytes == {1, 2}
Kinds == {"malloc", "free"}

VARIABLES
    registry_,    \* MallocCallback::registry_, the listener list
    critical_,    \* MallocCallback::critical_, the re-entrancy guard
    registered_,  \* MallocCallback::registered_ of every listener
    alive,        \* which objects are currently constructed
    counters,     \* the MallocCounter members of every meter
    pc,           \* calls still to be executed, innermost first
    events,       \* history: number of notifications raised so far
    note,         \* history: the last notification raised
    calls,        \* history: the callbacks invoked by the last notification
    obs,          \* history: per meter, what its callbacks were invoked with
    running,      \* history: per meter, whether its last lifecycle call was
                  \* start or resume (not pause, stop or none at all)
    cur,          \* history: the application call being executed or just
                  \* returned, with the accumulators and the list it found
    inside,       \* history: per meter b, the meters listening since b's start
    phases,       \* Phase::data_ and Phase::children_ of every phase
    alog,         \* history: per phase, the documents appended to it so far
    sw,           \* Stopwatch::start_ and Stopwatch::elapsed_ of every stopwatch
    now,          \* the reading of Stopwatch::Clock
    gd,           \* the locals of the gather_data call being executed
    ret,          \* the document returned by the last gather_data call
    pcur,         \* history: the phase or stopwatch call being executed or
                  \* just returned, with the state it found
    mlog,         \* history: the meter calls made by that phase call
    fresh,        \* history: nothing was changed since ret was returned
    wgh,          \* history: per stopwatch, the time its user saw it running,
                  \* whether its last reading of the clock was taken by
                  \* resume (on) rather than by pause, and the time it
                  \* was on since its last start
    ncalls,       \* history: number of calls made on the phases so far
    written,      \* history: the value last written through the data() of
                  \* a NoopPhase, 0 before the first
    result,       \* Result::pairs_ of the application's Result, and as
                  \* history what was passed to add and whether sort()
                  \* was the last call that changed pairs_
    pc2,          \* the calls still to be executed by the application's
                  \* second thread, the one that is not running now
    shim          \* the allocator shim: the real allocator's blocks, the
                  \* block headers in memory, the locals of the running
                  \* call, and the history of that call (its requests to
                  \* the real allocator, its notifications, its result)

prog == <<registry_, critical_, registered_, alive, counters, pc>>
hist == <<events, note, calls, obs, running, cur, inside>>
meas_ == <<phases, alog, sw, now, gd, ret, pcur, mlog, fresh, wgh, ncalls,
          written, result, pc2>>
meas == <<meas_, shim>>
vars == <<registry_, critical_, registered_, alive, counters, pc,
          events, note, calls, obs, running, cur, inside,
          phases, alog, sw, now, gd, ret, pcur, mlog, fresh, wgh, ncalls, shim,
          written, result, pc2>>

Range(s) == {s[i] : i \in 1..Len(s)}
Max(a, b) == IF a >= b THEN a ELSE b

-----------------------------------------------------------------------------
\* MallocCounter

\* peak_ forgotten in the reset
reset_drop_peak(c) ==
    [c EXCEPT !.current_ = 0, !.alloc_num_ = 0, !.alloc_bytes_ = 0,
              !.free_num_ = 0, !.free_bytes_ = 0]

\* MallocCounter::reset
reset(c) ==
    [c EXCEPT !.current_ = 0, !.peak_ = 0, !.alloc_num_ = 0,
              !.alloc_bytes_ = 0, !.free_num_ = 0, !.free_bytes_ = 0]

\* MallocCounter::MallocCounter(): MallocCallback(), active_(false), reset()
NewCounter ==
    reset([active_ |-> FALSE, current_ |-> 0, peak_ |-> 0, alloc_num_ |-> 0,
           alloc_bytes_ |-> 0, free_num_ |-> 0, free_bytes_ |-> 0])

\* the peak taken over the allocation sizes instead of the balance
on_alloc_peak_of_bytes(c, bytes) ==
    [c EXCEPT !.current_ = @ + bytes,
              !.peak_ = Max(@, bytes),
              !.alloc_num_ = @ + 1,
              !.alloc_bytes_ = @ + bytes]

\* MallocCounter::on_alloc
on_alloc(c, bytes) ==
    [c EXCEPT !.current_ = @ + bytes,
              !.peak_ = IF c.current_ + bytes > 0
                        THEN Max(@, c.current_ + bytes) ELSE @,
              !.alloc_num_ = @ + 1,
              !.alloc_bytes_ = @ + bytes]

\* the balance kept from going below zero
on_free_clamped(c, bytes) ==
    [c EXCEPT !.current_ = Max(0, @ - bytes),
              !.free_num_ = @ + 1,
              !.free_bytes_ = @ + bytes]

\* MallocCounter::on_free
on_free(c, bytes) ==
    [c EXCEPT !.current_ = @ - bytes,
              !.free_num_ = @ + 1,
              !.free_bytes_ = @ + bytes]

\* The six accumulators of a meter (what count(), peak(), alloc_num(),
\* alloc_bytes(), free_num(), free_bytes() return).
Acc(c) == <<c.current_, c.peak_, c.alloc_num_, c.alloc_bytes_,
            c.free_num_, c.free_bytes_>>

-----------------------------------------------------------------------------
\* MallocCallback

\* registry_.push_back(this)
push_back(reg, l) == Append(reg, l)

\* std::find(registry_.begin(), registry_.end(), this): the first position
\* holding l, or Len + 1 for registry_.end()
find(reg, l) ==
    IF \E i \in 1..Len(reg) : reg[i] = l
    THEN CHOOSE i \in 1..Len(reg) :
             reg[i] = l /\ \A j \in 1..(i - 1) : reg[j] # l
    ELSE Len(reg) + 1

\* the last element erased instead of the one found
erase_last(reg, l) ==
    IF Len(reg) = 0 THEN reg ELSE SubSeq(reg, 1, Len(reg) - 1)

\* if(it != registry_.end()) registry_.erase(it)
erase(reg, l) ==
    LET it == find(reg, l) IN
    IF it # Len(reg) + 1
    THEN SubSeq(reg, 1, it - 1) \o SubSeq(reg, it + 1, Len(reg))
    ELSE reg

\* cb->on_alloc(bytes) / cb->on_free(bytes): the virtual call on one listener.
\* st.m are the meters, st.log the callbacks invoked so far.  A plain
\* listener's callback is only logged.
deliver(st, l, kind, bytes) ==
    [m   |-> IF l \in Counters
             THEN [st.m EXCEPT ![l] = IF kind = "malloc"
                                      THEN on_alloc(@, bytes)
                                      ELSE on_free(@, bytes)]
             ELSE st.m,
     log |-> Append(st.log, <<l, kind, bytes>>)]

RECURSIVE for_each(_, _, _, _)
\* for(auto cb : registry_) cb->on_alloc(bytes)
for_each(reg, st, kind, bytes) ==
    IF reg = <<>> THEN st
    ELSE for_each(Tail(reg), deliver(st, Head(reg), kind, bytes), kind, bytes)

\* only the listener registered last is called
notify_last_only(reg, guard, m, kind, bytes) ==
    IF guard \/ reg = <<>> THEN [m |-> m, log |-> <<>>]
    ELSE deliver([m |-> m, log |-> <<>>], reg[Len(reg)], kind, bytes)

\* the listeners called last to first
notify_reversed(reg, guard, m, kind, bytes) ==
    IF guard THEN [m |-> m, log |-> <<>>]
    ELSE for_each([i \in 1..Len(reg) |-> reg[Len(reg) + 1 - i]],
                  [m |-> m, log |-> <<>>], kind, bytes)

\* critical_ not tested
notify_unguarded(reg, guard, m, kind, bytes) ==
    for_each(reg, [m |-> m, log |-> <<>>], kind, bytes)

\* MallocCallback::notify_malloc / notify_free
notify(reg, guard, m, kind, bytes) ==
    IF guard THEN [m |-> m, log |-> <<>>]
    ELSE for_each(reg, [m |-> m, log |-> <<>>], kind, bytes)

-----------------------------------------------------------------------------
\* History bookkeeping (no counterpart in the code)

NoObs == [an |-> 0, ab |-> 0, fn |-> 0, fb |-> 0, bal |-> 0, maxpos |-> 0]
NoCall == [op |-> "none", self |-> "none", acc |-> <<>>, reg |-> <<>>]
NoNote == [kind |-> "none", bytes |-> 0, guard |-> FALSE]

\* One callback as seen from outside the meter.
ObserveOne(o, kind, bytes) ==
    IF kind = "malloc"
    THEN [o EXCEPT !.an = @ + 1, !.ab = @ + bytes, !.bal = @ + bytes,
                   !.maxpos = Max(@, o.bal + bytes)]
    ELSE [o EXCEPT !.fn = @ + 1, !.fb = @ + bytes, !.bal = @ - bytes]

RECURSIVE Observe(_, _)
Observe(o, log) ==
    IF log = <<>> THEN o
    ELSE Observe(IF Head(log)[1] \in Counters
                 THEN [o EXCEPT ![Head(log)[1]] =
                           ObserveOne(@, Head(log)[2], Head(log)[3])]
                 ELSE o,
                 Tail(log))

\* The next call to execute.
At(op) == pc # <<>> /\ Head(pc).op = op
Self == Head(pc).self
Instr(op, l) == [op |-> op, self |-> l]

\* Continue with the calls in rest; the application call has returned when
\* nothing is left.  cur keeps naming it until the next call or event.
Goto(rest) ==
    /\ pc' = rest
    /\ cur' = cur
    /\ UNCHANGED meas

-----------------------------------------------------------------------------
\* Phase<M...>, Stopwatch and the JSON documents: objects and values

\* Bounds of the model: the number of clock ticks in one run, the number of
\* append_child calls in one run, and the number of calls made on the phases
\* in one run.
MaxTime == 3
MaxAppends == 2
MaxCalls == 4

\* The phases: P is a Phase<MallocCounter, Stopwatch, Stopwatch>, D an
\* anonymous DataPhase, i.e. Phase<>.
Phases == {"P", "D"}
Watches == {"s1", "s2"}
\* Phase::meters_, in the order of declaration
Meters(p) == IF p = "P" THEN <<"c1", "s1", "s2">> ELSE <<>>
num_meters(p) == Len(Meters(p))
\* Phase::name_, empty when the phase was default-constructed
name_(p) == IF p = "D" THEN "" ELSE p
\* The allocation meters that are members of a phase.
PhaseCounters == {"c1"}
\* What the application stores through Phase::data(): data()["sum"] = v
DataKey == "sum"
DataValues == {1, 2}

\* nlohmann::json: null and objects are functions from their keys, arrays
\* are sequences.  json() is null.
Null == <<>>
\* j[k] = v, which turns null into an object
Put(j, k, v) == [x \in (DOMAIN j) \cup {k} |-> IF x = k THEN v ELSE j[x]]
\* j.empty(): true of null and of an object or array without elements
empty(j) == DOMAIN j = {}
\* j.contains(k)
contains(j, k) == k \in DOMAIN j

\* Stopwatch::Stopwatch(): elapsed_(0); start_ is default-constructed, which
\* for a std::chrono::time_point is the clock's epoch.
NewStopwatch == [start_ |-> 0, elapsed_ |-> 0]

\* The clock is read in whole milliseconds, and durations are kept in that
\* unit, so duration<double, std::milli>(elapsed_).count() is the count.
elapsed_time_millis(w) == w.elapsed_

\* Meter::key()
key(m) == IF m \in Counters THEN "memory" ELSE "time"

\* The member read for every entry of MallocCounter::gather_metrics, in the
\* order of the statements.
MetricFields ==
    <<"peak", "closing", "alloc_num", "alloc_bytes", "free_num", "free_bytes">>
MetricMember(c, f) ==
    CASE f = "peak" -> c.peak_
      [] f = "closing" -> c.current_
      [] f = "alloc_num" -> c.alloc_num_
      [] f = "alloc_bytes" -> c.alloc_bytes_
      [] f = "free_num" -> c.free_num_
      [] f = "free_bytes" -> c.free_bytes_

NewPhase == [data_ |-> Null, children_ |-> <<>>]
NoGd == [json |-> Null, metrics |-> Null, obj |-> Null]
NoPhaseCall == [op |-> "none", self |-> "none", arg |-> "none"]
NoWatch ==
    [st |-> "idle", lo |-> 0, hi |-> 0, idle |-> 0, on |-> FALSE, run |-> 0]

\* size_t and pointers are SizeBits wide; arithmetic on them wraps.
SizeBits == 8
SizeMod == 2 ^ SizeBits
SIZE_MAX == SizeMod - 1
NULL == 0
\* MEMBLOCK_MAGIC = 0xFEDCBA9876543210, cut to the leading byte
MEMBLOCK_MAGIC == 254
\* sizeof(BlockHeader): magic, size and offset, eight bytes each
sizeof_BlockHeader == 24

\* The sizes the application asks for: none, small ones, and the largest.
Sizes == {0, 1, 8, SIZE_MAX}
\* The addresses at which the real allocator places a block.
Bases == {16, 64}

\* The alignments asked for: none, and powers of two below and above the
\* header size divisor (24 is a multiple of 8, not of 16).
Alignments == {0, 8, 16}
\* The numbers of elements of calloc: none, one, and so many that the
\* product with the element size wraps.
Nums == {0, 1, (SizeMod \div 2) + 1}
\* The element size of calloc.
ElemSizes == {2}
\* The size of a block the real allocator hands out without the shim.
ForeignSize == 8

\* What is_managed can find in front of a block the shim did not allocate:
\* bytes that are not the sentinel, or bytes that happen to be.
GarbageHeaders ==
    {[magic |-> 0, size |-> 0, offset |-> 0],
     [magic |-> MEMBLOCK_MAGIC, size |-> ForeignSize, offset |-> 0]}
NoHeader == [magic |-> 0, size |-> 0, offset |-> 0]
\* The application's record of a pointer: none.
NoBlock == [base |-> NULL, size |-> 0, managed |-> FALSE, zero |-> FALSE]

\* Result::Result(): pairs_ is empty.
NewResult == [pairs_ |-> <<>>, added |-> <<>>, sorted |-> FALSE]

\* No block allocated, no header written, no call made.
\*   blocks   the blocks of the real allocator that are in use
\*   hdr      the BlockHeader stored at an address
\*   size, alignment, num, arg, ptr, seen   locals of the running call: the
\*            size and alignment asked for, the pointer passed in, the
\*            pointer the real allocator returned, the header read
\*   result, memptr   what the call returned
\*   fault    "crash" once the process was killed, "corrupt" once the real
\*            allocator was handed a pointer that is not one of its blocks
\*   req, notes   history: the calls of the real allocator and the
\*            notifications made by the running call
\*   owned    history: the pointers the application holds, with the real
\*            block, the size asked for, whether the shim allocated it, and
\*            whether it was zero-filled
\*   given    history: the record of the pointer passed to the running call
NewShim == [blocks |-> {}, hdr |-> <<>>, size |-> 0, ptr |-> NULL,
            req |-> <<>>, notes |-> <<>>, result |-> NULL,
            alignment |-> 0, num |-> 0, arg |-> NULL, seen |-> NoHeader,
            memptr |-> NULL, fault |-> "none",
            owned |-> <<>>, given |-> NoBlock]

\* The clock reads t.
InitMeas(t) ==
    /\ phases = [p \in Phases |-> NewPhase]
    /\ alog = [p \in Phases |-> <<>>]
    /\ sw = [w \in Watches |-> NewStopwatch]
    /\ now = t
    /\ gd = NoGd
    /\ ret = Null
    /\ pcur = NoPhaseCall
    /\ mlog = <<>>
    /\ fresh = "none"
    /\ wgh = [w \in Watches |-> NoWatch]
    /\ ncalls = 0
    /\ shim = NewShim
    /\ written = 0
    /\ result = NewResult
    /\ pc2 = <<>>

-----------------------------------------------------------------------------
\* The state after construction, with the objects in made constructed and
\* the clock reading t.
InitWith(made, t) ==
    /\ registry_ = <<>>
    /\ critical_ = FALSE
    /\ registered_ = [l \in Listeners |-> FALSE]
    /\ alive = [l \in Listeners |-> l \in made]
    /\ counters = [l \in Counters |-> NewCounter]
    /\ pc = <<>>
    /\ events = 0
    /\ note = NoNote
    /\ calls = <<>>
    /\ obs = [l \in Counters |-> NoObs]
    /\ running = [l \in Counters |-> FALSE]
    /\ cur = NoCall
    /\ inside = [l \in Counters |-> {}]
    /\ InitMeas(t)

Init == InitWith({}, 1)

\* The calls the application can make on object l.
ApiOps(l) ==
    IF ~alive[l] THEN {"construct"}
    ELSE {"destroy"} \cup
         (IF l \in Counters THEN {"start", "pause", "resume", "stop"}
          ELSE {"register_callback", "unregister_callback"})

\* The application calls a member function of one of its objects.
Call ==
    /\ pc = <<>>
    /\ \E l \in Listeners : \E op \in ApiOps(l) :
        /\ pc' = <<Instr(op, l)>>
        /\ cur' = [op |-> op, self |-> l,
                   acc |-> IF op \in {"pause", "resume", "stop"}
                           THEN Acc(counters[l]) ELSE <<>>,
                   reg |-> IF op \in {"construct", "start"}
                           THEN <<>> ELSE registry_]
        /\ running' = IF l \in Counters /\ op \in {"start", "pause", "resume", "stop"}
                      THEN [running EXCEPT ![l] = op \in {"start", "resume"}]
                      ELSE running
    /\ note' = NoNote
    /\ calls' = <<>>
    /\ UNCHANGED <<registry_, critical_, registered_, alive, counters,
                   events, obs, inside>>
    /\ UNCHANGED meas

\* MallocCallback() : registered_(false); for a meter also MallocCounter()
construct ==
    /\ At("construct")
    /\ alive' = [alive EXCEPT ![Self] = TRUE]
    /\ registered_' = [registered_ EXCEPT ![Self] = FALSE]
    /\ counters' = IF Self \in Counters
                   THEN [counters EXCEPT ![Self] = NewCounter] ELSE counters
    /\ obs' = IF Self \in Counters THEN [obs EXCEPT ![Self] = NoObs] ELSE obs
    /\ running' = IF Self \in Counters THEN [running EXCEPT ![Self] = FALSE] ELSE running
    /\ inside' = IF Self \in Counters THEN [inside EXCEPT ![Self] = {}] ELSE inside
    /\ Goto(Tail(pc))
    /\ UNCHANGED <<registry_, critical_, events, note, calls>>

\* a destructor that leaves the listener in the registry
destroy_no_unregister ==
    /\ At("destroy")
    /\ Goto(<<Instr("dealloc", Self)>> \o Tail(pc))
    /\ UNCHANGED <<registry_, critical_, registered_, alive, counters,
                   events, note, calls, obs, running, inside>>

\* MallocCallback::~MallocCallback: unregister_callback(), then the storage
\* is gone
destroy ==
    /\ At("destroy")
    /\ Goto(<<Instr("unregister_callback", Self), Instr("dealloc", Self)>>
            \o Tail(pc))
    /\ UNCHANGED <<registry_, critical_, registered_, alive, counters,
                   events, note, calls, obs, running, inside>>

\* End of the object's lifetime.  The members of a dead object cannot be
\* read; they are set to fixed values.
dealloc ==
    /\ At("dealloc")
    /\ alive' = [alive EXCEPT ![Self] = FALSE]
    /\ registered_' = [registered_ EXCEPT ![Self] = FALSE]
    /\ counters' = IF Self \in Counters
                   THEN [counters EXCEPT ![Self] = NewCounter] ELSE counters
    /\ obs' = IF Self \in Counters THEN [obs EXCEPT ![Self] = NoObs] ELSE obs
    /\ running' = IF Self \in Counters THEN [running EXCEPT ![Self] = FALSE] ELSE running
    /\ inside' = IF Self \in Counters THEN [inside EXCEPT ![Self] = {}] ELSE inside
    /\ Goto(Tail(pc))
    /\ UNCHANGED <<registry_, critical_, events, note, calls>>

\* registered_ not tested
register_callback_unchecked ==
    /\ At("register_callback")
    /\ critical_' = TRUE
    /\ Goto(<<Instr("push_back", Self), Instr("register_end", Self)>>
            \o Tail(pc))
    /\ UNCHANGED <<registry_, registered_, alive, counters,
                   events, note, calls, obs, running, inside>>

\* MallocCallback::register_callback, up to critical_ = true
register_callback ==
    /\ At("register_callback")
    /\ IF ~registered_[Self]
       THEN /\ critical_' = TRUE
            /\ Goto(<<Instr("push_back", Self), Instr("register_end", Self)>>
                    \o Tail(pc))
       ELSE /\ critical_' = critical_
            /\ Goto(Tail(pc))
    /\ UNCHANGED <<registry_, registered_, alive, counters,
                   events, note, calls, obs, running, inside>>

\* MallocCallback::register_callback: registry_.push_back(this)
register_push_back ==
    /\ At("push_back")
    /\ registry_' = push_back(registry_, Self)
    /\ Goto(Tail(pc))
    /\ UNCHANGED <<critical_, registered_, alive, counters,
                   events, note, calls, obs, running, inside>>

\* the guard left set when the listener is registered
register_end_guard_kept ==
    /\ At("register_end")
    /\ registered_' = [registered_ EXCEPT ![Self] = TRUE]
    /\ Goto(Tail(pc))
    /\ UNCHANGED <<registry_, critical_, alive, counters,
                   events, note, calls, obs, running, inside>>

\* MallocCallback::register_callback: registered_ = true; critical_ = false
register_end ==
    /\ At("register_end")
    /\ registered_' = [registered_ EXCEPT ![Self] = TRUE]
    /\ critical_' = FALSE
    /\ Goto(Tail(pc))
    /\ UNCHANGED <<registry_, alive, counters,
                   events, note, calls, obs, running, inside>>

\* MallocCallback::unregister_callback: critical_ = true
unregister_callback ==
    /\ At("unregister_callback")
    /\ critical_' = TRUE
    /\ Goto(<<Instr("unregister_end", Self)>> \o Tail(pc))
    /\ UNCHANGED <<registry_, registered_, alive, counters,
                   events, note, calls, obs, running, inside>>

\* MallocCallback::unregister_callback: find, erase, registered_ = false,
\* critical_ = false
unregister_end ==
    /\ At("unregister_end")
    /\ registry_' = erase(registry_, Self)
    /\ registered_' = [registered_ EXCEPT ![Self] = FALSE]
    /\ critical_' = FALSE
    /\ inside' = [b \in Counters |-> inside[b] \ {Self}]
    /\ Goto(Tail(pc))
    /\ UNCHANGED <<alive, counters, events, note, calls, obs, running>>

\* a start that takes the meter out of the list and enters it again
start_reentering ==
    /\ At("start")
    /\ counters' = [counters EXCEPT ![Self] = reset(@)]
    /\ obs' = [obs EXCEPT ![Self] = NoObs]
    /\ inside' = [b \in Counters |->
                    IF b = Self
                    THEN {a \in Counters \ {Self} : a \in Range(registry_)}
                    ELSE inside[b] \ {Self}]
    /\ Goto(<<Instr("pause", Self), Instr("resume", Self)>> \o Tail(pc))
    /\ UNCHANGED <<registry_, critical_, registered_, alive,
                   events, note, calls, running>>

\* MallocCounter::start: reset(); resume();
start ==
    /\ At("start")
    /\ counters' = [counters EXCEPT ![Self] = reset(@)]
    /\ obs' = [obs EXCEPT ![Self] = NoObs]
    /\ inside' = [b \in Counters |->
                    IF b = Self
                    THEN {a \in Counters \ {Self} : a \in Range(registry_)}
                    ELSE inside[b] \ {Self}]
    /\ Goto(<<Instr("resume", Self)>> \o Tail(pc))
    /\ UNCHANGED <<registry_, critical_, registered_, alive,
                   events, note, calls, running>>

\* MallocCounter::resume: if(!active_) register_callback() ...
resume ==
    /\ At("resume")
    /\ IF ~counters[Self].active_
       THEN Goto(<<Instr("register_callback", Self), Instr("resume_end", Self)>>
                 \o Tail(pc))
       ELSE Goto(Tail(pc))
    /\ UNCHANGED <<registry_, critical_, registered_, alive, counters,
                   events, note, calls, obs, running, inside>>

\* MallocCounter::resume: ... active_ = true
resume_end ==
    /\ At("resume_end")
    /\ counters' = [counters EXCEPT ![Self].active_ = TRUE]
    /\ Goto(Tail(pc))
    /\ UNCHANGED <<registry_, critical_, registered_, alive,
                   events, note, calls, obs, running, inside>>

\* active_ cleared without unregistering
pause_keep_registered ==
    /\ At("pause")
    /\ Goto(<<Instr("pause_end", Self)>> \o Tail(pc))
    /\ UNCHANGED <<registry_, critical_, registered_, alive, counters,
                   events, note, calls, obs, running, inside>>

\* MallocCounter::pause: if(active_) unregister_callback() ...
pause ==
    /\ At("pause")
    /\ IF counters[Self].active_
       THEN Goto(<<Instr("unregister_callback", Self), Instr("pause_end", Self)>>
                 \o Tail(pc))
       ELSE Goto(Tail(pc))
    /\ UNCHANGED <<registry_, critical_, registered_, alive, counters,
                   events, note, calls, obs, running, inside>>

\* MallocCounter::pause: ... active_ = false
pause_end ==
    /\ At("pause_end")
    /\ counters' = [counters EXCEPT ![Self].active_ = FALSE]
    /\ Goto(Tail(pc))
    /\ UNCHANGED <<registry_, critical_, registered_, alive,
                   events, note, calls, obs, running, inside>>

\* a stop that ends the measurement for good: the accumulators are cleared
stop_resetting ==
    /\ At("stop")
    /\ counters' = [counters EXCEPT ![Self] = reset(@)]
    /\ Goto(<<Instr("pause", Self)>> \o Tail(pc))
    /\ UNCHANGED <<registry_, critical_, registered_, alive,
                   events, note, calls, obs, running, inside>>

\* MallocCounter::stop: pause();
stop ==
    /\ At("stop")
    /\ Goto(<<Instr("pause", Self)>> \o Tail(pc))
    /\ UNCHANGED <<registry_, critical_, registered_, alive, counters,
                   events, note, calls, obs, running, inside>>

\* Where an allocation event can be raised: by the application between two
\* calls, or by the vector reallocating inside registry_.push_back (the new
\* buffer is allocated before, the old one freed after the element is added).
\* gather_data builds JSON values, whose objects, arrays and strings come from
\* the heap: between any two of its reads of the meters the shim can run.
CanNotify ==
    \/ pc = <<>>
    \/ At("push_back")
    \/ At("register_end")
    \/ At("counter_gather_metrics")
    \/ At("gather_data_return")

\* malloc_hook::on_malloc / on_free, i.e. MallocCallback::notify_malloc /
\* notify_free
Notify(kind, bytes) ==
    /\ CanNotify
    /\ events < MaxEvents
    /\ LET r == notify(registry_, critical_, counters, kind, bytes) IN
        /\ counters' = r.m
        /\ calls' = r.log
        /\ obs' = Observe(obs, r.log)
    /\ events' = events + 1
    /\ note' = [kind |-> kind, bytes |-> bytes, guard |-> critical_]
    /\ cur' = IF pc = <<>> THEN NoCall ELSE cur
    /\ fresh' = IF pc = <<>> THEN "none" ELSE fresh
    /\ UNCHANGED <<registry_, critical_, registered_, alive, pc,
                   running, inside>>
    /\ UNCHANGED <<phases, alog, sw, now, gd, ret, pcur, mlog, wgh, ncalls, shim, written, result,
                   pc2>>

notify_malloc == \E bytes \in Bytes : Notify("malloc", bytes)
notify_free == \E bytes \in Bytes : Notify("free", bytes)

Next ==
    \/ Call
    \/ construct
    \/ destroy
    \/ dealloc
    \/ register_callback
    \/ register_push_back
    \/ register_end
    \/ unregister_callback
    \/ unregister_end
    \/ start
    \/ resume
    \/ resume_end
    \/ pause
    \/ pause_end
    \/ stop
    \/ notify_malloc
    \/ notify_free

Spec == Init /\ [][Next]_vars

\* The steps of a call that is being executed.  The program is one thread:
\* a call that has begun goes on until it returns.
Steps ==
    \/ construct
    \/ destroy
    \/ dealloc
    \/ register_callback
    \/ register_push_back
    \/ register_end
    \/ unregister_callback
    \/ unregister_end
    \/ start
    \/ resume
    \/ resume_end
    \/ pause
    \/ pause_end
    \/ stop

SpecFair == Spec /\ WF_vars(Steps)

-----------------------------------------------------------------------------
\* Stopwatch

regs == <<registry_, critical_, registered_, alive, counters>>

\* Stopwatch::start: elapsed_ = Duration(0); resume();
sw_start ==
    /\ At("sw_start")
    /\ sw' = [sw EXCEPT ![Self].elapsed_ = 0]
    /\ wgh' = [wgh EXCEPT ![Self].run = 0]
    /\ pc' = <<Instr("sw_resume", Self)>> \o Tail(pc)
    /\ UNCHANGED <<regs, hist, phases, alog, now, gd, ret, pcur, mlog, fresh, ncalls, shim, written, result,
                   pc2>>

\* resume also forgets the accumulated duration
sw_resume_zeroing ==
    /\ At("sw_resume")
    /\ sw' = [sw EXCEPT ![Self] = [start_ |-> now, elapsed_ |-> 0]]
    /\ pc' = Tail(pc)
    /\ wgh' = [wgh EXCEPT ![Self].on = TRUE]
    /\ UNCHANGED <<regs, hist, phases, alog, now, gd, ret, pcur, mlog, fresh, ncalls, shim, written, result,
                   pc2>>

\* Stopwatch::resume: start_ = Clock::now();
sw_resume ==
    /\ At("sw_resume")
    /\ sw' = [sw EXCEPT ![Self].start_ = now]
    /\ pc' = Tail(pc)
    /\ wgh' = [wgh EXCEPT ![Self].on = TRUE]
    /\ UNCHANGED <<regs, hist, phases, alog, now, gd, ret, pcur, mlog, fresh, ncalls, shim, written, result,
                   pc2>>

\* pause stores the last segment instead of adding it
sw_pause_last_segment ==
    /\ At("sw_pause")
    /\ sw' = [sw EXCEPT ![Self].elapsed_ = now - sw[Self].start_]
    /\ pc' = Tail(pc)
    /\ wgh' = [wgh EXCEPT ![Self].on = FALSE]
    /\ UNCHANGED <<regs, hist, phases, alog, now, gd, ret, pcur, mlog, fresh, ncalls, shim, written, result,
                   pc2>>

\* Stopwatch::pause: elapsed_ += Clock::now() - start_;
sw_pause ==
    /\ At("sw_pause")
    /\ sw' = [sw EXCEPT ![Self].elapsed_ = @ + (now - sw[Self].start_)]
    /\ pc' = Tail(pc)
    /\ wgh' = [wgh EXCEPT ![Self].on = FALSE]
    /\ UNCHANGED <<regs, hist, phases, alog, now, gd, ret, pcur, mlog, fresh, ncalls, shim, written, result,
                   pc2>>

\* Stopwatch::stop: pause();
sw_stop ==
    /\ At("sw_stop")
    /\ pc' = <<Instr("sw_pause", Self)>> \o Tail(pc)
    /\ UNCHANGED <<regs, hist, phases, alog, sw, now, gd, ret, pcur, mlog, fresh, wgh, ncalls, shim, written, result,
                   pc2>>

\* What the user of a stopwatch knows after calling op: whether the calls
\* since the last start were pause/resume pairs and at most a closing stop.
Track(g, op) ==
    IF op = "start"
    THEN [st |-> "running", lo |-> 0, hi |-> 0, idle |-> 0, on |-> g.on,
          run |-> g.run]
    ELSE IF g.st = "running" /\ op = "pause" THEN [g EXCEPT !.st = "paused"]
    ELSE IF g.st = "paused" /\ op = "resume" THEN [g EXCEPT !.st = "running"]
    ELSE IF g.st = "running" /\ op = "stop" THEN [g EXCEPT !.st = "stopped"]
    ELSE [g EXCEPT !.st = "off"]

\* One tick of Stopwatch::Clock.  The clock is only read by resume and pause,
\* so the ticks are taken between two calls or right before a reading.
\* lo counts the ticks between the return of start/resume and the following
\* call of pause/stop, hi the ticks between the call of start/resume and the
\* return of the following pause/stop, idle the ticks between the return of
\* a pause and the call of the following resume, run the ticks since the
\* last start that lie between a reading by resume and the next by pause.
Tick ==
    /\ now <= MaxTime
    /\ pc = <<>> \/ At("sw_resume") \/ At("sw_pause")
    /\ now' = now + 1
    /\ wgh' = [w \in Watches |->
                 [wgh[w] EXCEPT
                    !.lo = IF wgh[w].st = "running" /\ pc = <<>>
                           THEN @ + 1 ELSE @,
                    !.hi = IF \/ wgh[w].st = "running"
                              \/ /\ wgh[w].st \in {"paused", "stopped"}
                                 /\ pc # <<>>
                                 /\ pcur.self = w
                           THEN @ + 1 ELSE @,
                    !.idle = IF wgh[w].st = "paused" /\ pc = <<>>
                             THEN @ + 1 ELSE @,
                    !.run = IF wgh[w].on THEN @ + 1 ELSE @]]
    /\ UNCHANGED <<regs, pc, hist, phases, alog, sw, gd, ret, pcur, mlog, fresh, ncalls, shim, written, result,
                   pc2>>

\* The stopwatch the application uses on its own, as in test/pm.cpp.
OwnWatches == {"s1"}
WatchOps == {"start", "pause", "resume", "stop"}
SwOp(op) ==
    CASE op = "start" -> "sw_start"
      [] op = "pause" -> "sw_pause"
      [] op = "resume" -> "sw_resume"
      [] op = "stop" -> "sw_stop"

\* Repeated pause or stop calls add the last segment again and again; the
\* runs of the model stop adding once a stopwatch shows more than MaxTime.
Addable(w, op) == op \in {"pause", "stop"} => sw[w].elapsed_ <= MaxTime

\* The application calls a member function of its stopwatch.
WatchCall ==
    /\ pc = <<>>
    /\ \E w \in OwnWatches : \E op \in WatchOps :
        /\ Addable(w, op)
        /\ pc' = <<Instr(SwOp(op), w)>>
        /\ pcur' = [op |-> op, self |-> w, arg |-> "none"]
        /\ wgh' = [wgh EXCEPT ![w] = Track(@, op)]
    /\ mlog' = <<>>
    /\ fresh' = "none"
    /\ UNCHANGED <<regs, hist, phases, alog, sw, now, gd, ret, ncalls, shim, written, result,
                   pc2>>

NextWatch ==
    \/ WatchCall
    \/ sw_start
    \/ sw_resume
    \/ sw_pause
    \/ sw_stop
    \/ Tick

SpecWatch == Init /\ [][NextWatch]_vars

-----------------------------------------------------------------------------
\* Phase

PInstr(op, p, i) == [op |-> op, self |-> p, i |-> i]

\* get<I>().op() for the meter m
MeterCall(m, op) == Instr(IF m \in Counters THEN op ELSE SwOp(op), m)

\* Total number of children appended so far.
NumChildren == Len(phases["P"].children_) + Len(phases["D"].children_)

LifeCalls == [op : {"start", "pause", "resume", "stop"}, arg : {"none"}]
GatherCalls ==
    [op : {"start", "pause", "gather_data"}, arg : {"none"}]
        \cup [op : {"data"}, arg : DataValues]
PhaseCalls ==
    [op : {"append_child"}, arg : Phases]
        \cup [op : {"data"}, arg : DataValues]
DocCalls ==
    [op : {"start", "pause", "gather_data"}, arg : {"none"}]
        \cup [op : {"append_child"}, arg : Phases]
        \cup [op : {"data"}, arg : DataValues]

PhOp(op) ==
    CASE op = "start" -> "phase_start"
      [] op = "pause" -> "phase_pause"
      [] op = "resume" -> "phase_resume"
      [] op = "stop" -> "phase_stop"
      [] OTHER -> op

\* The application calls a member function of one of its phases; data is
\* phase.data()["sum"] = arg.
PhaseCall(Ps, Calls) ==
    /\ pc = <<>>
    /\ ncalls < MaxCalls
    /\ \E p \in Ps : \E c \in Calls :
        /\ c.op = "append_child" => NumChildren < MaxAppends
        /\ \A w \in Range(Meters(p)) \cap Watches : Addable(w, c.op)
        /\ pc' = <<PInstr(PhOp(c.op), p, c.arg)>>
        /\ pcur' = [op |-> c.op, self |-> p, arg |-> c.arg]
        /\ fresh' = IF c.op = "gather_data" THEN fresh ELSE "none"
    /\ mlog' = <<>>
    /\ ncalls' = ncalls + 1
    /\ UNCHANGED <<regs, hist, phases, alog, sw, now, gd, ret, wgh, shim,
                   written, result, pc2>>

\* Runs of lifecycle calls.
LifeCall == PhaseCall(Phases, LifeCalls)
\* Runs that gather the document of the phase with meters while it is
\* running or paused.
GatherCall == PhaseCall({"P"}, GatherCalls)
\* Runs that build documents of phases and their children.
DocCall == PhaseCall(Phases, DocCalls)
\* Runs that build phases and then add one to a Result.
FlatPhaseCall == result.pairs_ = <<>> /\ PhaseCall(Phases, PhaseCalls)

\* Phase::start: start_meters();  (I = 0)
phase_start ==
    /\ At("phase_start")
    /\ pc' = <<PInstr("start_meters", Self, 0)>> \o Tail(pc)
    /\ UNCHANGED <<regs, hist, meas>>

\* Phase::pause: pause_meters();  (I = num_meters())
phase_pause ==
    /\ At("phase_pause")
    /\ pc' = <<PInstr("pause_meters", Self, num_meters(Self))>> \o Tail(pc)
    /\ UNCHANGED <<regs, hist, meas>>

\* Phase::resume: resume_meters();  (I = 0)
phase_resume ==
    /\ At("phase_resume")
    /\ pc' = <<PInstr("resume_meters", Self, 0)>> \o Tail(pc)
    /\ UNCHANGED <<regs, hist, meas>>

\* Phase::stop: stop_meters();  (I = num_meters())
phase_stop ==
    /\ At("phase_stop")
    /\ pc' = <<PInstr("stop_meters", Self, num_meters(Self))>> \o Tail(pc)
    /\ UNCHANGED <<regs, hist, meas>>

\* if constexpr(I < num_meters()) { get<I>().op(); op_meters<I+1>(); }
Ascend(name, op) ==
    /\ At(name)
    /\ LET p == Self
           I == Head(pc).i
       IN IF I < num_meters(p)
          THEN /\ pc' = <<MeterCall(Meters(p)[I + 1], op),
                          PInstr(name, p, I + 1)>> \o Tail(pc)
               /\ mlog' = Append(mlog, <<Meters(p)[I + 1], op>>)
          ELSE /\ pc' = Tail(pc)
               /\ mlog' = mlog
    /\ UNCHANGED <<regs, hist, phases, alog, sw, now, gd, ret, pcur, fresh, wgh, ncalls, shim, written, result,
                   pc2>>

\* if constexpr(I > 0) { get<I-1>().op(); op_meters<I-1>(); }
Descend(name, op) ==
    /\ At(name)
    /\ LET p == Self
           I == Head(pc).i
       IN IF I > 0
          THEN /\ pc' = <<MeterCall(Meters(p)[I], op),
                          PInstr(name, p, I - 1)>> \o Tail(pc)
               /\ mlog' = Append(mlog, <<Meters(p)[I], op>>)
          ELSE /\ pc' = Tail(pc)
               /\ mlog' = mlog
    /\ UNCHANGED <<regs, hist, phases, alog, sw, now, gd, ret, pcur, fresh, wgh, ncalls, shim, written, result,
                   pc2>>

\* the meters taken from the last declared one down
AscendMirrored(name, op) ==
    /\ At(name)
    /\ LET p == Self
           I == Head(pc).i
       IN IF I < num_meters(p)
          THEN /\ pc' = <<MeterCall(Meters(p)[num_meters(p) - I], op),
                          PInstr(name, p, I + 1)>> \o Tail(pc)
               /\ mlog' = Append(mlog, <<Meters(p)[num_meters(p) - I], op>>)
          ELSE /\ pc' = Tail(pc)
               /\ mlog' = mlog
    /\ UNCHANGED <<regs, hist, phases, alog, sw, now, gd, ret, pcur, fresh, wgh, ncalls, shim, written, result,
                   pc2>>

\* the meters taken from the first declared one up
DescendMirrored(name, op) ==
    /\ At(name)
    /\ LET p == Self
           I == Head(pc).i
       IN IF I > 0
          THEN /\ pc' = <<MeterCall(Meters(p)[num_meters(p) - I + 1], op),
                          PInstr(name, p, I - 1)>> \o Tail(pc)
               /\ mlog' = Append(mlog, <<Meters(p)[num_meters(p) - I + 1], op>>)
          ELSE /\ pc' = Tail(pc)
               /\ mlog' = mlog
    /\ UNCHANGED <<regs, hist, phases, alog, sw, now, gd, ret, pcur, fresh, wgh, ncalls, shim, written, result,
                   pc2>>

start_meters_mirrored == AscendMirrored("start_meters", "start")
stop_meters_mirrored == DescendMirrored("stop_meters", "stop")

\* Phase::start_meters<I>
start_meters == Ascend("start_meters", "start")
\* Phase::pause_meters<I>
pause_meters == Descend("pause_meters", "pause")
\* Phase::resume_meters<I>
resume_meters == Ascend("resume_meters", "resume")
\* Phase::stop_meters<I>
stop_meters == Descend("stop_meters", "stop")

\* data()["sum"] = v through the handle returned by Phase::data
data ==
    /\ At("data")
    /\ phases' = [phases EXCEPT ![Self].data_ = Put(@, DataKey, Head(pc).i)]
    /\ pc' = Tail(pc)
    /\ UNCHANGED <<regs, hist, alog, sw, now, gd, ret, pcur, mlog, fresh, wgh, ncalls, shim, written, result,
                   pc2>>

\* Phase::append_child: children_.emplace_back(child.gather_data());
append_child ==
    /\ At("append_child")
    /\ pc' = <<PInstr("gather_data", Head(pc).i, 0),
               PInstr("emplace_back", Self, Head(pc).i)>> \o Tail(pc)
    /\ UNCHANGED <<regs, hist, meas>>

\* the document stored in front of the others
emplace_back_front ==
    /\ At("emplace_back")
    /\ phases' = [phases EXCEPT ![Self].children_ = <<ret>> \o @]
    /\ alog' = [alog EXCEPT ![Self] = Append(@, ret)]
    /\ pc' = Tail(pc)
    /\ UNCHANGED <<regs, hist, sw, now, gd, ret, pcur, mlog, fresh, wgh, ncalls, shim, written, result,
                   pc2>>

\* children_.emplace_back(...) with the document just gathered
emplace_back ==
    /\ At("emplace_back")
    /\ phases' = [phases EXCEPT ![Self].children_ = Append(@, ret)]
    /\ alog' = [alog EXCEPT ![Self] = Append(@, ret)]
    /\ pc' = Tail(pc)
    /\ UNCHANGED <<regs, hist, sw, now, gd, ret, pcur, mlog, fresh, wgh, ncalls, shim, written, result,
                   pc2>>

\* The rest of gather_data once json[name] and json[children] are set.
GatherRest(p) ==
    (IF num_meters(p) > 0 THEN <<PInstr("gather_metrics", p, 0)>> ELSE <<>>)
        \o <<PInstr("gather_data_return", p, 0)>>

\* the children entry written even when there are none
gather_data_with_empty_children ==
    /\ At("gather_data")
    /\ gd' = [NoGd EXCEPT !.json =
                 Put(Put(Null, "name", name_(Self)),
                     "children", phases[Self].children_)]
    /\ pc' = GatherRest(Self) \o Tail(pc)
    /\ UNCHANGED <<regs, hist, phases, alog, sw, now, ret, pcur, mlog, fresh, wgh, ncalls, shim, written, result,
                   pc2>>

\* Phase::gather_data, up to the metrics: json[name] = name_; the children
\* array if children_ is not empty
gather_data ==
    /\ At("gather_data")
    /\ gd' = [NoGd EXCEPT !.json =
                 IF phases[Self].children_ # <<>>
                 THEN Put(Put(Null, "name", name_(Self)),
                          "children", phases[Self].children_)
                 ELSE Put(Null, "name", name_(Self))]
    /\ pc' = GatherRest(Self) \o Tail(pc)
    /\ UNCHANGED <<regs, hist, phases, alog, sw, now, ret, pcur, mlog, fresh, wgh, ncalls, shim, written, result,
                   pc2>>

\* a stopwatch's entry kept when a later meter has the same key
gather_metrics_first_wins ==
    /\ At("gather_metrics")
    /\ LET p == Self
           I == Head(pc).i
       IN IF I < num_meters(p)
          THEN LET m == Meters(p)[I + 1] IN
               IF m \in Counters
               THEN /\ pc' = <<PInstr("counter_gather_metrics", m, 1),
                               PInstr("gather_metrics", p, I + 1)>> \o Tail(pc)
                    /\ gd' = gd
               ELSE /\ pc' = <<PInstr("gather_metrics", p, I + 1)>> \o Tail(pc)
                    /\ gd' = IF contains(gd.metrics, key(m)) THEN gd
                             ELSE [gd EXCEPT !.metrics =
                                      Put(@, key(m), elapsed_time_millis(sw[m]))]
          ELSE /\ pc' = Tail(pc)
               /\ gd' = gd
    /\ UNCHANGED <<regs, hist, phases, alog, sw, now, ret, pcur, mlog, fresh, wgh, ncalls, shim, written, result,
                   pc2>>

\* Phase::gather_metrics<I>: metrics[m.key()] = m.gather_metrics(); for a
\* Stopwatch that is elapsed_time_millis(), for a MallocCounter the object
\* built by counter_gather_metrics
gather_metrics ==
    /\ At("gather_metrics")
    /\ LET p == Self
           I == Head(pc).i
       IN IF I < num_meters(p)
          THEN LET m == Meters(p)[I + 1] IN
               IF m \in Counters
               THEN /\ pc' = <<PInstr("counter_gather_metrics", m, 1),
                               PInstr("gather_metrics", p, I + 1)>> \o Tail(pc)
                    /\ gd' = gd
               ELSE /\ pc' = <<PInstr("gather_metrics", p, I + 1)>> \o Tail(pc)
                    /\ gd' = [gd EXCEPT !.metrics =
                                 Put(@, key(m), elapsed_time_millis(sw[m]))]
          ELSE /\ pc' = Tail(pc)
               /\ gd' = gd
    /\ UNCHANGED <<regs, hist, phases, alog, sw, now, ret, pcur, mlog, fresh, wgh, ncalls, shim, written, result,
                   pc2>>

\* MallocCounter::gather_metrics, one statement obj[f] = member at a time;
\* after the last one the object is returned and stored by the caller as
\* metrics[key()]
counter_gather_metrics ==
    /\ At("counter_gather_metrics")
    /\ LET m == Self
           k == Head(pc).i
           obj == Put(gd.obj, MetricFields[k], MetricMember(counters[m], MetricFields[k]))
       IN IF k < Len(MetricFields)
          THEN /\ pc' = <<PInstr("counter_gather_metrics", m, k + 1)>> \o Tail(pc)
               /\ gd' = [gd EXCEPT !.obj = obj]
          ELSE /\ pc' = Tail(pc)
               /\ gd' = [gd EXCEPT !.obj = Null,
                                   !.metrics = Put(@, key(m), obj)]
    /\ UNCHANGED <<regs, hist, phases, alog, sw, now, ret, pcur, mlog, fresh, wgh, ncalls, shim, written, result,
                   pc2>>

\* The document once the metrics are gathered: json[metrics] if the phase
\* declares meters, json[data] if data_ is not empty.
Finish(p, g) ==
    LET j == IF num_meters(p) > 0 THEN Put(g.json, "metrics", g.metrics)
             ELSE g.json
    IN IF ~empty(phases[p].data_) THEN Put(j, "data", phases[p].data_) ELSE j

\* the data entry written even when data_ is empty
gather_data_return_with_empty_data ==
    /\ At("gather_data_return")
    /\ ret' = Put(IF num_meters(Self) > 0
                  THEN Put(gd.json, "metrics", gd.metrics) ELSE gd.json,
                  "data", phases[Self].data_)
    /\ gd' = NoGd
    /\ fresh' = IF pcur.op = "gather_data" THEN Self ELSE "none"
    /\ pc' = Tail(pc)
    /\ UNCHANGED <<regs, hist, phases, alog, sw, now, pcur, mlog, wgh, ncalls, shim, written, result,
                   pc2>>

\* the data attachment handed over to the document
gather_data_return_moving_data ==
    /\ At("gather_data_return")
    /\ ret' = Finish(Self, gd)
    /\ phases' = [phases EXCEPT ![Self].data_ = Null]
    /\ gd' = NoGd
    /\ fresh' = IF pcur.op = "gather_data" THEN Self ELSE "none"
    /\ pc' = Tail(pc)
    /\ UNCHANGED <<regs, hist, alog, sw, now, pcur, mlog, wgh, ncalls, shim, written, result,
                   pc2>>

\* Phase::gather_data, from the metrics on: return json;
gather_data_return ==
    /\ At("gather_data_return")
    /\ ret' = Finish(Self, gd)
    /\ gd' = NoGd
    /\ fresh' = IF pcur.op = "gather_data" THEN Self ELSE "none"
    /\ pc' = Tail(pc)
    /\ UNCHANGED <<regs, hist, phases, alog, sw, now, pcur, mlog, wgh, ncalls, shim, written, result,
                   pc2>>

\* The calls made by the lifecycle calls of a phase.
MeterSteps ==
    \/ sw_start
    \/ sw_resume
    \/ sw_pause
    \/ register_callback
    \/ register_push_back
    \/ register_end
    \/ unregister_callback
    \/ unregister_end
    \/ start
    \/ resume
    \/ resume_end
    \/ pause
    \/ pause_end

\* The calls made by gather_data.
GatherSteps ==
    \/ gather_data
    \/ gather_metrics
    \/ counter_gather_metrics
    \/ gather_data_return

\* Lifecycle calls on the phases while the clock runs; the application does
\* not use the heap.
NextPhase ==
    \/ LifeCall
    \/ phase_start
    \/ phase_pause
    \/ phase_resume
    \/ phase_stop
    \/ start_meters
    \/ pause_meters
    \/ resume_meters
    \/ stop_meters
    \/ sw_stop
    \/ stop
    \/ MeterSteps
    \/ Tick

\* The phase with meters is started, paused, written to and asked for its
\* document, while the clock runs and the heap is used.
NextGather ==
    \/ GatherCall
    \/ phase_start
    \/ phase_pause
    \/ start_meters
    \/ pause_meters
    \/ data
    \/ GatherSteps
    \/ MeterSteps
    \/ Tick
    \/ notify_malloc
    \/ notify_free

\* Phases are started, paused, written to, asked for their documents and
\* appended to each other while the clock runs; the application does not
\* use the heap otherwise.
NextDoc ==
    \/ DocCall
    \/ phase_start
    \/ phase_pause
    \/ start_meters
    \/ pause_meters
    \/ data
    \/ append_child
    \/ emplace_back
    \/ GatherSteps
    \/ MeterSteps
    \/ Tick

\* The phases are constructed, and with them their meters.  The program has
\* been running for a while: the clock ticks once more in these runs.
InitPhase == InitWith(PhaseCounters, MaxTime)

SpecGather == InitPhase /\ [][NextGather]_vars

SpecDoc == InitPhase /\ [][NextDoc]_vars

SpecPhase == InitPhase /\ [][NextPhase]_vars

-----------------------------------------------------------------------------
\* Two meters of each kind driven side by side: the application makes every
\* call on the first meter of a kind and then on the second, except that the
\* second is paused wherever the first is stopped.  The clock is read between
\* two such rounds of calls, so both stopwatches are given the same readings.

\* The first and the second meter of each kind.
Firsts == <<"c1", "s1">>
Seconds == <<"c2", "s2">>
\* The call made on the second meter when op is called on the first.
Twin(op) == IF op = "stop" THEN "pause" ELSE op

\* a.op(); b.Twin(op)(); for the allocation meters and then for the
\* stopwatches; the call made before is kept as history.
TwinCall ==
    /\ pc = <<>>
    /\ ncalls < MaxCalls
    /\ \E op \in WatchOps :
        /\ \A w \in Watches : Addable(w, op)
        /\ pc' = <<MeterCall(Firsts[1], op), MeterCall(Seconds[1], Twin(op)),
                   MeterCall(Firsts[2], op), MeterCall(Seconds[2], Twin(op))>>
        /\ pcur' = [op |-> op, self |-> "twins", arg |-> pcur.op]
    /\ mlog' = <<>>
    /\ fresh' = "none"
    /\ ncalls' = ncalls + 1
    /\ UNCHANGED <<regs, hist, phases, alog, sw, now, gd, ret, wgh, shim, written, result, pc2>>

\* The clock advancing between two calls of the application.
TwinTick == pc = <<>> /\ Tick

NextTwin ==
    \/ TwinCall
    \/ stop
    \/ sw_stop
    \/ MeterSteps
    \/ notify_malloc
    \/ notify_free
    \/ TwinTick

InitTwin == InitWith(Counters, 1)

SpecTwin == InitTwin /\ [][NextTwin]_vars

-----------------------------------------------------------------------------
\* Two threads of the application using listeners at the same time.  pc is
\* the thread that is running, pc2 the one that is not; the scheduler can
\* take one off the processor and put the other on between any two
\* statements.  The threads do not call members of the same object at the
\* same time, but registry_ and critical_ are shared by all listeners.

\* The thread with the calls c left is between critical_ = true and
\* critical_ = false.
Guarded(c) ==
    /\ c # <<>>
    /\ Head(c).op \in {"push_back", "register_end", "unregister_end"}

\* The objects whose member functions the thread with the calls c left is in.
Using(c) == {c[i].self : i \in 1..Len(c)}

\* The scheduler switches threads.
Switch ==
    /\ shim.fault # "crash"
    /\ pc # pc2
    /\ pc' = pc2
    /\ pc2' = pc
    /\ UNCHANGED <<regs, hist, phases, alog, sw, now, gd, ret, pcur, mlog,
                   fresh, wgh, ncalls, shim, written, result>>

\* The running thread calls a member function of an object the other thread
\* is not using.
ThreadCall ==
    /\ shim.fault # "crash"
    /\ Call
    /\ cur'.op \notin {"construct", "destroy"}
    /\ cur'.self \notin Using(pc2)

\* An allocation or release made by the running thread.
ThreadNotify ==
    /\ shim.fault # "crash"
    /\ notify_malloc \/ notify_free

\* The running thread reads or writes the list while the other thread is
\* between critical_ = true and critical_ = false: a data race on
\* registry_, after which the process can as well be killed.
RaceCrash ==
    /\ shim.fault # "crash"
    /\ Guarded(pc2)
    /\ pc = <<>> \/ Guarded(pc)
    /\ shim' = [shim EXCEPT !.fault = "crash"]
    /\ pc' = <<>>
    /\ pc2' = <<>>
    /\ UNCHANGED <<regs, hist, phases, alog, sw, now, gd, ret, pcur, mlog,
                   fresh, wgh, ncalls, written, result>>

NextThreads ==
    \/ ThreadCall
    \/ ThreadNotify
    \/ Switch
    \/ RaceCrash
    \/ register_callback
    \/ register_push_back
    \/ register_end
    \/ unregister_callback
    \/ unregister_end
    \/ start
    \/ resume
    \/ resume_end
    \/ pause
    \/ pause_end
    \/ stop

InitThreads == InitWith(Counters, 1)

SpecThreads == InitThreads /\ [][NextThreads]_vars

-----------------------------------------------------------------------------
\* Moving allocation meters (malloc_counter.hpp), next to the calls of the
\* registry specification.

\* a source that stays active and registered
move_assign_copying ==
    /\ At("move_assign")
    /\ counters' = [counters EXCEPT ![Self] = counters[Head(pc).i]]
    /\ IF counters[Head(pc).i].active_
       THEN Goto(<<Instr("register_callback", Self)>> \o Tail(pc))
       ELSE Goto(Tail(pc))
    /\ UNCHANGED <<registry_, critical_, registered_, alive,
                   events, note, calls, obs, running, inside>>

\* The application moves meter b into meter a: a = std::move(b) if a exists,
\* MallocCounter a(std::move(b)) if it does not.  As history the call keeps
\* the source, its accumulators and whether it was active.
MoveCall ==
    /\ pc = <<>>
    /\ \E a, b \in Counters :
        /\ a # b
        /\ alive[b]
        /\ LET op == IF alive[a] THEN "move_assign" ELSE "move_construct" IN
            /\ pc' = <<[op |-> op, self |-> a, i |-> b]>>
            /\ cur' = [op |-> op, self |-> a, acc |-> Acc(counters[b]),
                       reg |-> registry_, from |-> b,
                       was |-> counters[b].active_]
    /\ note' = NoNote
    /\ calls' = <<>>
    /\ UNCHANGED <<registry_, critical_, registered_, alive, counters,
                   events, obs, running, inside>>
    /\ UNCHANGED meas

\* MallocCounter(MallocCounter&& other): the base is default-constructed
\* (registered_(false)), then *this = std::move(other)
move_construct ==
    /\ At("move_construct")
    /\ alive' = [alive EXCEPT ![Self] = TRUE]
    /\ registered_' = [registered_ EXCEPT ![Self] = FALSE]
    /\ Goto(<<[op |-> "move_assign", self |-> Self, i |-> Head(pc).i]>>
            \o Tail(pc))
    /\ UNCHANGED <<registry_, critical_, counters,
                   events, note, calls, obs, running, inside>>

\* MallocCounter::operator=(MallocCounter&& other): the six accumulators and
\* active_ are copied; if(active_) { other.unregister_callback();
\* other.active_ = false; register_callback(); }
move_assign ==
    /\ At("move_assign")
    /\ counters' = [counters EXCEPT ![Self] = counters[Head(pc).i]]
    /\ IF counters[Head(pc).i].active_
       THEN Goto(<<Instr("unregister_callback", Head(pc).i),
                   Instr("move_from", Head(pc).i),
                   Instr("register_callback", Self)>> \o Tail(pc))
       ELSE Goto(Tail(pc))
    /\ UNCHANGED <<registry_, critical_, registered_, alive,
                   events, note, calls, obs, running, inside>>

\* MallocCounter::operator=(MallocCounter&& other): other.active_ = false
move_from ==
    /\ At("move_from")
    /\ counters' = [counters EXCEPT ![Self].active_ = FALSE]
    /\ Goto(Tail(pc))
    /\ UNCHANGED <<registry_, critical_, registered_, alive,
                   events, note, calls, obs, running, inside>>

\* The application calls a member function of one of its meters.
CounterCall == Call /\ cur'.self \in Counters

NextMove ==
    \/ MoveCall
    \/ move_construct
    \/ move_assign
    \/ move_from
    \/ CounterCall
    \/ Steps
    \/ notify_malloc
    \/ notify_free

SpecMove == Init /\ [][NextMove]_vars

-----------------------------------------------------------------------------
\* NoopPhase (noop_phase.hpp).  It has no members; next to it the application
\* uses phases that measure.

\* NoopPhase::has_data, NoopPhase::has_meters
noop_has_data == FALSE
noop_has_meters == FALSE

\* What a default-initialised value read from NoData is (an int), and the
\* text dump() gives.
DefaultValue == 0
NoDump == ""

\* The calls on a NoopPhase: the lifecycle, append_child of another
\* NoopPhase, phase.data()["sum"] = arg, int x = phase.data()["sum"],
\* phase.gather_data()["sum"] read as a value, and phase.gather_data().dump().
NoopCalls ==
    [op : {"start", "pause", "resume", "stop", "append_child", "read",
           "gather_data", "dump"}, arg : {"none"}]
        \cup [op : {"data"}, arg : DataValues]

\* The application calls a member function of its NoopPhase.
NoopCall ==
    /\ pc = <<>>
    /\ \E c \in NoopCalls :
        /\ pc' = <<PInstr("noop", "N", c.arg)>>
        /\ pcur' = [op |-> c.op, self |-> "N", arg |-> c.arg]
    /\ mlog' = <<>>
    /\ fresh' = "none"
    /\ UNCHANGED <<regs, hist, phases, alog, sw, now, gd, ret, wgh, ncalls,
                   shim, written, result, pc2>>

\* data() stores what is assigned and the reads give it back
noop_storing ==
    /\ At("noop")
    /\ pc' = Tail(pc)
    /\ ret' = CASE pcur.op \in {"read", "gather_data"} -> written
                [] pcur.op = "dump" -> NoDump
                [] OTHER -> ret
    /\ written' = IF pcur.op = "data" THEN Head(pc).i ELSE written
    /\ UNCHANGED <<regs, hist, phases, alog, sw, now, gd, pcur, mlog, fresh,
                   wgh, ncalls, shim, result, pc2>>

\* NoopPhase::start, pause, resume, stop, append_child: empty bodies;
\* data() and gather_data(): return nothing_;
\* IgnoreAssignment::operator=: return *this;
\* IgnoreAssignment::operator T(): return {};  NoData::dump: return {};
noop ==
    /\ At("noop")
    /\ pc' = Tail(pc)
    /\ ret' = CASE pcur.op \in {"read", "gather_data"} -> DefaultValue
                [] pcur.op = "dump" -> NoDump
                [] OTHER -> ret
    /\ written' = IF pcur.op = "data" THEN Head(pc).i ELSE written
    /\ UNCHANGED <<regs, hist, phases, alog, sw, now, gd, pcur, mlog, fresh,
                   wgh, ncalls, shim, result, pc2>>

NextNoop ==
    \/ NoopCall
    \/ noop
    \/ LifeCall
    \/ phase_start
    \/ phase_pause
    \/ phase_resume
    \/ phase_stop
    \/ start_meters
    \/ pause_meters
    \/ resume_meters
    \/ stop_meters
    \/ sw_stop
    \/ stop
    \/ MeterSteps
    \/ Tick

SpecNoop == InitPhase /\ [][NextNoop]_vars

-----------------------------------------------------------------------------
\* Result (result.hpp).  Keys, values and the text printed are strings.

\* Most pairs the application adds with add(key, value) in a run.
MaxPairs == 4

\* The characters used in keys and values, in the order of their codes, and
\* the place of each in that order.
Ascii == " -.0123456789=ABCDEFGHIJKLMNOPQRSTUVWXYZ_abcdefghijklmnopqrstuvwxyz"
Chars == {SubSeq(Ascii, i, i) : i \in 1..Len(Ascii)}
Ord == [c \in Chars |-> CHOOSE i \in 1..Len(Ascii) : SubSeq(Ascii, i, i) = c]

\* std::string operator<: lexicographic by character code, a proper prefix
\* is smaller.
RECURSIVE StrLess(_, _)
StrLess(a, b) ==
    IF b = "" THEN FALSE
    ELSE IF a = "" THEN TRUE
    ELSE IF Head(a) = Head(b) THEN StrLess(Tail(a), Tail(b))
    ELSE Ord[Head(a)] < Ord[Head(b)]

\* std::to_string of an integer: the sign and the decimal digits
Digit(d) == SubSeq("0123456789", d + 1, d + 1)
RECURSIVE Decimal(_)
Decimal(n) == IF n < 10 THEN Digit(n) ELSE Decimal(n \div 10) \o Digit(n % 10)
to_string(n) == IF n < 0 THEN "-" \o Decimal(-n) ELSE Decimal(n)

\* A double that is a whole number of eighths: units + eighths / 8.
Double(u, e) == [units |-> u, eighths |-> e]
\* nlohmann::json(value).dump() of such a double: the shortest decimal text
\* that reads back as the value, with .0 for a whole number.
dump_float(d) ==
    LET f == d.eighths * 125
    IN to_string(d.units) \o "." \o
       (IF f % 100 = 0 THEN Digit(f \div 100)
        ELSE IF f % 10 = 0 THEN Digit(f \div 100) \o Digit((f \div 10) % 10)
        ELSE Digit(f \div 100) \o Digit((f \div 10) % 10) \o Digit(f % 10))

\* the dot put in front of the key also when there is no prefix
append_key_dotted(key_prefix, k) == key_prefix \o "." \o k

\* Result::append_key
append_key(key_prefix, k) ==
    IF key_prefix = "" THEN k ELSE key_prefix \o "." \o k

\* A value passed to add, with the type that selects the overload.
Value(t, v) == [type |-> t, v |-> v]
\* What the application adds: add("str", "test"), add("int", -1337),
\* add("double", 3.125), add("bool", false), and add("bool", true),
\* add("int", 0).
AddInputs ==
    {[key |-> "str", from |-> Value("string", "test")],
     [key |-> "int", from |-> Value("int", 0 - 1337)],
     [key |-> "double", from |-> Value("double", Double(3, 1))],
     [key |-> "bool", from |-> Value("bool", FALSE)],
     [key |-> "bool", from |-> Value("bool", TRUE)],
     [key |-> "int", from |-> Value("int", 0)]}
\* str() and print() with the default prefix or another one.
Prefixes == {"RESULT", "R"}

KeyValuePair(k, v, from) == [key |-> k, value |-> v, from |-> from]

\* The overload of add chosen for a value.
AddOp(from) ==
    CASE from.type = "bool" -> "add_bool"
      [] from.type = "int" -> "add_integral"
      [] from.type = "double" -> "add_floating_point"
      [] from.type = "string" -> "add_string"

\* The calls on a Result: add(key, value), sort(), str(false, prefix),
\* print(out, append_newline, prefix), and add(phase).
ResultCalls ==
    [op : {"add"}, arg : AddInputs]
        \cup [op : {"sort"}, arg : {"none"}]
        \cup [op : {"str"}, arg : [nl : {FALSE}, prefix : Prefixes]]
        \cup [op : {"print"}, arg : [nl : BOOLEAN, prefix : Prefixes]]
FlatCalls ==
    [op : {"add_phase"}, arg : Phases]
        \cup [op : {"sort"}, arg : {"none"}]
        \cup [op : {"str"}, arg : [nl : {FALSE}, prefix : {"RESULT"}]]

\* What a call on the Result executes; add(phase) is
\* add_phase_data("", phase.gather_data()).
ResultBody(c) ==
    CASE c.op = "add" -> <<PInstr(AddOp(c.arg.from), "R", c.arg)>>
      [] c.op = "add_phase" ->
            <<PInstr("gather_data", c.arg, 0), PInstr("add_phase_data", "R", "")>>
      [] OTHER -> <<PInstr(c.op, "R", c.arg)>>

\* The application calls a member function of its Result.  A run adds
\* MaxPairs pairs at most, and a phase to the empty Result only.
ResultCallOf(Calls) ==
    /\ pc = <<>>
    /\ \E c \in Calls :
        /\ c.op = "add" => Len(result.pairs_) < MaxPairs
        /\ c.op = "add_phase" => result.pairs_ = <<>>
        /\ pc' = ResultBody(c)
        /\ pcur' = [op |-> c.op, self |-> "R", arg |-> c.arg]
    /\ mlog' = <<>>
    /\ fresh' = "none"
    /\ ret' = Null
    /\ UNCHANGED <<regs, hist, phases, alog, sw, now, gd, wgh, ncalls, shim,
                   written, result, pc2>>

\* Runs that add values.
ResultCall == ResultCallOf(ResultCalls)
\* Runs that add a phase.
FlatCall == ResultCallOf(FlatCalls)

\* pairs_.emplace_back(key, value), with the history of what was added
emplace_pair(k, v, from) ==
    /\ result' = [result EXCEPT
                     !.pairs_ = Append(@, KeyValuePair(k, v, from)),
                     !.added = Append(@, [key |-> k, from |-> from]),
                     !.sorted = FALSE]
    /\ pc' = Tail(pc)
    /\ UNCHANGED <<regs, hist, phases, alog, sw, now, gd, ret, pcur, mlog,
                   fresh, wgh, ncalls, shim, written, pc2>>

\* the value of a bool added as the number it converts to
add_bool_numeric ==
    /\ At("add_bool")
    /\ LET x == Head(pc).i
       IN emplace_pair(x.key, to_string(IF x.from.v THEN 1 ELSE 0), x.from)

\* Result::add(std::string&& key, bool value)
add_bool ==
    /\ At("add_bool")
    /\ LET x == Head(pc).i
       IN emplace_pair(x.key, IF x.from.v THEN "true" ELSE "false", x.from)

\* Result::add(std::string&& key, T value) for an integral T
add_integral ==
    /\ At("add_integral")
    /\ LET x == Head(pc).i IN emplace_pair(x.key, to_string(x.from.v), x.from)

\* Result::add(std::string&& key, T value) for a floating point T
add_floating_point ==
    /\ At("add_floating_point")
    /\ LET x == Head(pc).i IN emplace_pair(x.key, dump_float(x.from.v), x.from)

\* Result::add(std::string&& key, char const* value), and the overloads for
\* std::string&& and std::string const&
add_string ==
    /\ At("add_string")
    /\ LET x == Head(pc).i IN emplace_pair(x.key, x.from.v, x.from)

\* s without its i-th element
RemoveAt(s, i) == SubSeq(s, 1, i - 1) \o SubSeq(s, i + 1, Len(s))

\* The orders std::sort may leave s in for the comparison a.key < b.key: the
\* keys ascend, pairs with equal keys come in any order.  Inserted(t, x) are
\* the ways to put x into the sorted t.
Inserted(t, x) ==
    LET lo == Cardinality({j \in 1..Len(t) : StrLess(t[j].key, x.key)})
        hi == Len(t) - Cardinality({j \in 1..Len(t) : StrLess(x.key, t[j].key)})
    IN {SubSeq(t, 1, i) \o <<x>> \o SubSeq(t, i + 1, Len(t)) : i \in lo..hi}
RECURSIVE Sorts(_)
Sorts(s) ==
    IF s = <<>> THEN {<<>>}
    ELSE UNION {Inserted(t, s[Len(s)]) : t \in Sorts(SubSeq(s, 1, Len(s) - 1))}

\* Result::sort
sort ==
    /\ At("sort")
    /\ \E q \in Sorts(result.pairs_) :
        result' = [result EXCEPT !.pairs_ = q, !.sorted = TRUE]
    /\ pc' = Tail(pc)
    /\ UNCHANGED <<regs, hist, phases, alog, sw, now, gd, ret, pcur, mlog,
                   fresh, wgh, ncalls, shim, written, pc2>>

\* out << " " << pair.key << "=" << pair.value for every pair of ps
RECURSIVE Line(_)
Line(ps) ==
    IF ps = <<>> THEN ""
    ELSE " " \o Head(ps).key \o "=" \o Head(ps).value \o Line(Tail(ps))

\* Result::print; ret is what the stream has received
print ==
    /\ At("print")
    /\ ret' = Head(pc).i.prefix \o Line(result.pairs_)
                 \o (IF Head(pc).i.nl THEN "\n" ELSE "")
    /\ pc' = Tail(pc)
    /\ UNCHANGED <<regs, hist, phases, alog, sw, now, gd, pcur, mlog, fresh,
                   wgh, ncalls, shim, written, result, pc2>>

\* Result::str: print(ss, append_newline, prefix); return ss.str();
str ==
    /\ At("str")
    /\ pc' = <<PInstr("print", "R", Head(pc).i)>> \o Tail(pc)
    /\ UNCHANGED <<regs, hist, meas_, shim>>

\* v.is_primitive() for the item with key k of a section of a document: the
\* entry of an allocation meter is an object, every other entry a number.
is_primitive(k) == k \notin {key(c) : c \in Counters}

\* v.dump() of such a number: what a stopwatch gathers is a double, a whole
\* number of milliseconds in these runs, every other number is an integer.
dump(k, v) ==
    IF k \in {key(w) : w \in Watches} THEN to_string(v) \o ".0"
    ELSE to_string(v)

\* data.items(): the keys of an object in ascending order
RECURSIVE items(_)
items(S) ==
    IF S = {} THEN <<>>
    ELSE LET k == CHOOSE k \in S : \A o \in S : ~StrLess(o, k)
         IN <<k>> \o items(S \ {k})

\* Result::add_pairs_recursive: the pairs it appends for the items ks of
\* data that are still to be visited
RECURSIVE add_pairs_recursive(_, _, _)
add_pairs_recursive(key_prefix, json, ks) ==
    IF ks = <<>> THEN <<>>
    ELSE LET k == Head(ks)
             v == json[k]
             new_key == append_key(key_prefix, k)
         IN (IF is_primitive(k)
             THEN <<KeyValuePair(new_key, dump(k, v), Value("json", v))>>
             ELSE add_pairs_recursive(new_key, v, items(DOMAIN v)))
            \o add_pairs_recursive(key_prefix, json, Tail(ks))

\* Result::add_phase_data: the pairs it appends, the children from the i-th
\* on
RECURSIVE add_phase_data_pairs(_, _)
RECURSIVE add_children_pairs(_, _, _)
add_phase_data_pairs(key_prefix, json) ==
    (IF contains(json, "metrics")
     THEN add_pairs_recursive(append_key(key_prefix, "metrics"),
                              json["metrics"], items(DOMAIN json["metrics"]))
     ELSE <<>>)
    \o (IF contains(json, "data")
        THEN add_pairs_recursive(append_key(key_prefix, "data"),
                                 json["data"], items(DOMAIN json["data"]))
        ELSE <<>>)
    \o (IF contains(json, "children")
        THEN add_children_pairs(key_prefix, json["children"], 1)
        ELSE <<>>)
add_children_pairs(key_prefix, cs, i) ==
    IF i > Len(cs) THEN <<>>
    ELSE add_phase_data_pairs(append_key(key_prefix, cs[i]["name"]), cs[i])
            \o add_children_pairs(key_prefix, cs, i + 1)

\* The Result with the pairs ps appended, and the history of it.
AppendedAll(ps) ==
    [result EXCEPT
        !.pairs_ = @ \o ps,
        !.added = @ \o [i \in 1..Len(ps) |->
                          [key |-> ps[i].key, from |-> ps[i].from]],
        !.sorted = FALSE]

\* Result::add(T const& phase), after phase.gather_data() has returned the
\* document ret
add_phase_data ==
    /\ At("add_phase_data")
    /\ result' = AppendedAll(add_phase_data_pairs(Head(pc).i, ret))
    /\ pc' = Tail(pc)
    /\ UNCHANGED <<regs, hist, phases, alog, sw, now, gd, ret, pcur, mlog,
                   fresh, wgh, ncalls, shim, written, pc2>>

\* Phases are written to and appended to each other before they are
\* started, and one of them is added to the Result, which is sorted and
\* printed.
NextFlat ==
    \/ FlatCall
    \/ add_phase_data
    \/ sort
    \/ str
    \/ print
    \/ FlatPhaseCall
    \/ data
    \/ append_child
    \/ emplace_back
    \/ GatherSteps

SpecFlat == InitPhase /\ [][NextFlat]_vars

\* The application fills, sorts and prints a Result.
NextResult ==
    \/ ResultCall
    \/ add_bool
    \/ add_integral
    \/ add_floating_point
    \/ add_string
    \/ sort
    \/ str
    \/ print

SpecResult == Init /\ [][NextResult]_vars

-----------------------------------------------------------------------------
\* The build without PM_MALLOC: the bodies of register_callback,
\* unregister_callback, notify_malloc and notify_free are empty and the shim
\* is not linked, so the allocations of the process reach nobody.

\* MallocCallback::register_callback without PM_MALLOC
register_callback_off ==
    /\ At("register_callback")
    /\ Goto(Tail(pc))
    /\ UNCHANGED <<regs, events, note, calls, obs, running, inside>>

\* MallocCallback::unregister_callback without PM_MALLOC
unregister_callback_off ==
    /\ At("unregister_callback")
    /\ Goto(Tail(pc))
    /\ UNCHANGED <<regs, events, note, calls, obs, running, inside>>

\* an allocation counted by every active meter although none is registered
NotifyOff_counting(kind, bytes) ==
    /\ CanNotify
    /\ events < MaxEvents
    /\ counters' = [c \in Counters |->
                      IF ~counters[c].active_ THEN counters[c]
                      ELSE IF kind = "malloc" THEN on_alloc(counters[c], bytes)
                      ELSE on_free(counters[c], bytes)]
    /\ events' = events + 1
    /\ note' = [kind |-> kind, bytes |-> bytes, guard |-> critical_]
    /\ calls' = <<>>
    /\ cur' = IF pc = <<>> THEN NoCall ELSE cur
    /\ UNCHANGED <<registry_, critical_, registered_, alive, pc,
                   obs, running, inside, meas>>

\* An allocation or release of the process, and
\* MallocCallback::notify_malloc / notify_free without PM_MALLOC
NotifyOff(kind, bytes) ==
    /\ CanNotify
    /\ events < MaxEvents
    /\ events' = events + 1
    /\ note' = [kind |-> kind, bytes |-> bytes, guard |-> critical_]
    /\ calls' = <<>>
    /\ cur' = IF pc = <<>> THEN NoCall ELSE cur
    /\ UNCHANGED <<regs, pc, obs, running, inside, meas>>

notify_malloc_off == \E bytes \in Bytes : NotifyOff("malloc", bytes)
notify_free_off == \E bytes \in Bytes : NotifyOff("free", bytes)

NextOff ==
    \/ Call
    \/ construct
    \/ destroy
    \/ dealloc
    \/ register_callback_off
    \/ unregister_callback_off
    \/ start
    \/ resume
    \/ resume_end
    \/ pause
    \/ pause_end
    \/ stop
    \/ notify_malloc_off
    \/ notify_free_off

SpecOff == Init /\ [][NextOff]_vars

-----------------------------------------------------------------------------
\* The allocator shim (malloc_override.cpp)

\* The application can make a call: none is running and the process lives.
Running == pc = <<>> /\ shim.fault # "crash"

\* The locals and the history of the previous call forgotten.
Cleared ==
    [shim EXCEPT !.size = 0, !.alignment = 0, !.num = 0, !.arg = NULL,
                 !.ptr = NULL, !.seen = NoHeader, !.req = <<>>,
                 !.notes = <<>>, !.result = NULL, !.memptr = NULL,
                 !.given = NoBlock]

\* The function j without the keys in K.
Drop(j, K) == [x \in (DOMAIN j) \ K |-> j[x]]

\* The application calls the entry point op of the shim.
Enter(op, arg, s) ==
    /\ Running
    /\ pc' = <<Instr(op, "shim")>>
    /\ pcur' = [op |-> op, self |-> "shim", arg |-> arg]
    /\ shim' = s
    /\ UNCHANGED <<regs, hist, phases, alog, sw, now, gd, ret, mlog, fresh,
                   wgh, ncalls, written, result, pc2>>

\* The pointers the application can pass: null, and those it holds.
Pointers == {NULL} \cup DOMAIN shim.owned

\* The application passes the pointer p to the shim and gives it up.
Passed(p) ==
    [Cleared EXCEPT !.arg = p,
                    !.given = IF p = NULL THEN NoBlock ELSE shim.owned[p],
                    !.owned = Drop(@, {p})]

\* The application calls malloc(size).
ShimCall ==
    \E size \in Sizes : Enter("malloc", size, [Cleared EXCEPT !.size = size])

\* The application calls free(ptr).
FreeCall ==
    \E p \in Pointers : Enter("free", p, Passed(p))

\* The application calls realloc(ptr, size).
ReallocCall ==
    \E p \in Pointers : \E size \in Sizes :
        Enter("realloc", <<p, size>>, [Passed(p) EXCEPT !.size = size])

\* The application calls aligned_alloc, memalign or posix_memalign.
AlignedCall ==
    \E op \in {"aligned_alloc", "memalign", "posix_memalign"} :
    \E a \in Alignments : \E size \in Sizes :
        Enter(op, <<a, size>>, [Cleared EXCEPT !.alignment = a, !.size = size])

\* The application calls calloc(num, size).
CallocCall ==
    \E num \in Nums : \E size \in ElemSizes :
        Enter("calloc", <<num, size>>,
              [Cleared EXCEPT !.num = num, !.size = size])

\* The block [base, base + n) lies in the address space and apart from the
\* blocks bs.
FitsIn(bs, base, n) ==
    /\ base + n <= SizeMod
    /\ \A b \in bs :
          /\ b.base # base
          /\ b.base + b.len <= base \/ base + n <= b.base

\* The block [base, base + n) lies in the address space and apart from the
\* blocks in use.
Fits(base, n) == FitsIn(shim.blocks, base, n)

\* A block is handed out by the real allocator without the shim (to the C
\* library itself, or before the shim was in place) and reaches the
\* application.
ForeignAlloc ==
    /\ Running
    /\ \E b \in {c \in Bases : Fits(c, ForeignSize)} :
        /\ shim' = [Cleared EXCEPT
                      !.blocks = @ \cup {[base |-> b, len |-> ForeignSize]},
                      !.owned = Put(@, b, [base |-> b, size |-> ForeignSize,
                                           managed |-> FALSE, zero |-> FALSE])]
        /\ pcur' = [op |-> "foreign", self |-> "shim", arg |-> b]
    /\ UNCHANGED <<regs, hist, pc, phases, alog, sw, now, gd, ret, mlog,
                   fresh, wgh, ncalls, written, result, pc2>>

\* The process is killed.
Crash == [shim EXCEPT !.fault = "crash"]

\* malloc: if(!size) return NULL;
\*         void *ptr = __libc_malloc(size + sizeof(BlockHeader));
malloc ==
    /\ At("malloc")
    /\ IF shim.size = 0
       THEN /\ shim' = [shim EXCEPT !.result = NULL]
            /\ pc' = Tail(pc)
       ELSE /\ shim' = shim
            /\ pc' = <<PInstr("libc_malloc", "shim",
                              (shim.size + sizeof_BlockHeader) % SizeMod),
                       Instr("malloc_stamp", "shim")>> \o Tail(pc)
    /\ UNCHANGED <<regs, hist, meas_>>

\* The real allocator: NULL, or a block of n bytes not in use.
libc_malloc ==
    /\ At("libc_malloc")
    /\ LET n == Head(pc).i IN
       \E p \in {NULL} \cup {b \in Bases : Fits(b, n)} :
          shim' = [shim EXCEPT
                     !.ptr = p,
                     !.blocks = IF p = NULL THEN @
                                ELSE @ \cup {[base |-> p, len |-> n]},
                     !.req = Append(@, <<"malloc", n>>)]
    /\ pc' = Tail(pc)
    /\ UNCHANGED <<regs, hist, meas_>>

\* malloc: if(!ptr) return ptr;
\*         block->magic = MEMBLOCK_MAGIC; block->size = size;
\*         block->offset = 0;
\* The header is written where the real allocator's block begins, also when
\* the block is shorter than the header.
malloc_stamp ==
    /\ At("malloc_stamp")
    /\ IF shim.ptr = NULL
       THEN /\ shim' = [shim EXCEPT !.result = NULL]
            /\ pc' = Tail(pc)
       ELSE /\ shim' = [shim EXCEPT !.hdr = Put(@, shim.ptr,
                           [magic |-> MEMBLOCK_MAGIC, size |-> shim.size,
                            offset |-> 0])]
            /\ pc' = <<Instr("on_malloc", "shim"),
                       Instr("malloc_return", "shim")>> \o Tail(pc)
    /\ UNCHANGED <<regs, hist, meas_>>

\* malloc, aligned_alloc, realloc: pm::malloc_hook::on_malloc(size), which
\* is MallocCallback::notify_malloc(size)
on_malloc ==
    /\ At("on_malloc")
    /\ counters' = notify(registry_, critical_, counters, "malloc", shim.size).m
    /\ shim' = [shim EXCEPT !.notes = Append(@, <<"malloc", shim.size>>)]
    /\ pc' = Tail(pc)
    /\ UNCHANGED <<registry_, critical_, registered_, alive, hist, meas_>>

\* free, realloc: pm::malloc_hook::on_free(bytes), which is
\* MallocCallback::notify_free(bytes)
hook_on_free ==
    /\ At("on_free")
    /\ LET bytes == Head(pc).i IN
        /\ counters' = notify(registry_, critical_, counters, "free", bytes).m
        /\ shim' = [shim EXCEPT !.notes = Append(@, <<"free", bytes>>)]
    /\ pc' = Tail(pc)
    /\ UNCHANGED <<registry_, critical_, registered_, alive, hist, meas_>>

\* The application holds the pointer p to a block of the shim.
Held(p, base, size) ==
    Put(shim.owned, p, [base |-> base, size |-> size, managed |-> TRUE,
                        zero |-> FALSE])

\* malloc: return (char*)ptr + sizeof(BlockHeader);
malloc_return ==
    /\ At("malloc_return")
    /\ LET r == (shim.ptr + sizeof_BlockHeader) % SizeMod IN
       shim' = [shim EXCEPT !.result = r,
                            !.owned = Held(r, shim.ptr, shim.size)]
    /\ pc' = Tail(pc)
    /\ UNCHANGED <<regs, hist, meas_>>

\* The header is_managed and its caller read at address a: the one stored
\* there, or whatever lies in front of a block the shim did not allocate.
ReadHeader(a) ==
    IF contains(shim.hdr, a) THEN {shim.hdr[a]} ELSE GarbageHeaders

is_managed(block) == block.magic = MEMBLOCK_MAGIC

\* the header address released instead of the real allocator's pointer
free_releasing_header ==
    /\ At("free")
    /\ IF shim.arg = NULL
       THEN /\ shim' = shim
            /\ pc' = Tail(pc)
       ELSE LET block == (shim.arg - sizeof_BlockHeader) % SizeMod IN
            \E h \in ReadHeader(block) :
              /\ shim' = [shim EXCEPT !.seen = h]
              /\ pc' = (IF is_managed(h)
                        THEN <<PInstr("on_free", "shim", h.size),
                               PInstr("libc_free", "shim", block)>>
                        ELSE <<PInstr("libc_free", "shim", shim.arg)>>)
                       \o Tail(pc)
    /\ UNCHANGED <<regs, hist, meas_>>

\* free: if(!ptr) return;
\*       auto block = (BlockHeader*)((char*)ptr - sizeof(BlockHeader));
\*       if(is_managed(block)) { on_free(block->size);
\*                               __libc_free((char*)block - block->offset); }
\*       else __libc_free(ptr);
free ==
    /\ At("free")
    /\ IF shim.arg = NULL
       THEN /\ shim' = shim
            /\ pc' = Tail(pc)
       ELSE LET block == (shim.arg - sizeof_BlockHeader) % SizeMod IN
            \E h \in ReadHeader(block) :
              /\ shim' = [shim EXCEPT !.seen = h]
              /\ pc' = (IF is_managed(h)
                        THEN <<PInstr("on_free", "shim", h.size),
                               PInstr("libc_free", "shim",
                                      (block - h.offset) % SizeMod)>>
                        ELSE <<PInstr("libc_free", "shim", shim.arg)>>)
                       \o Tail(pc)
    /\ UNCHANGED <<regs, hist, meas_>>

\* The addresses of the headers stored in the block b.
HeadersIn(b) ==
    {a \in DOMAIN shim.hdr : b.base <= a /\ a < b.base + Max(b.len, 1)}

\* The real allocator's free: the block at p is no longer in use and what
\* was stored in it is lost.  A pointer that is not one of its blocks is
\* undefined behaviour: the process is killed, or goes on with a corrupted
\* heap.
libc_free ==
    /\ At("libc_free")
    /\ LET p == Head(pc).i
           logged == [shim EXCEPT !.req = Append(@, <<"free", p>>)] IN
       IF \E b \in shim.blocks : b.base = p
       THEN LET b == CHOOSE c \in shim.blocks : c.base = p IN
            /\ shim' = [logged EXCEPT !.blocks = @ \ {b},
                                      !.hdr = Drop(@, HeadersIn(b))]
            /\ pc' = Tail(pc)
       ELSE \/ /\ shim' = [logged EXCEPT !.fault = "crash"]
               /\ pc' = <<>>
            \/ /\ shim' = [logged EXCEPT !.fault = "corrupt"]
               /\ pc' = Tail(pc)
    /\ UNCHANGED <<regs, hist, meas_>>

\* realloc: if(!size) { free(ptr); return NULL; }
\*          else if(!ptr) return malloc(size);
\*          else { block = ptr - sizeof(BlockHeader);
\*                 if(is_managed(block)) { old_size = block->size;
\*                   new_ptr = __libc_realloc(block, size + sizeof(BlockHeader));
\*                 ... } else return __libc_realloc(ptr, size); }
realloc ==
    /\ At("realloc")
    /\ IF shim.size = 0
       THEN /\ shim' = shim
            /\ pc' = <<Instr("free", "shim"), Instr("realloc_null", "shim")>>
                     \o Tail(pc)
       ELSE IF shim.arg = NULL
       THEN /\ shim' = shim
            /\ pc' = <<Instr("malloc", "shim")>> \o Tail(pc)
       ELSE LET block == (shim.arg - sizeof_BlockHeader) % SizeMod IN
            \E h \in ReadHeader(block) :
              /\ shim' = [shim EXCEPT !.seen = h]
              /\ pc' = (IF is_managed(h)
                        THEN <<PInstr("libc_realloc", "shim",
                                 <<block,
                                   (shim.size + sizeof_BlockHeader) % SizeMod>>),
                               Instr("realloc_stamp", "shim")>>
                        ELSE <<PInstr("libc_realloc", "shim",
                                 <<shim.arg, shim.size>>),
                               Instr("realloc_foreign", "shim")>>)
                       \o Tail(pc)
    /\ UNCHANGED <<regs, hist, meas_>>

\* realloc: ... return NULL; after free(ptr)
realloc_null ==
    /\ At("realloc_null")
    /\ shim' = [shim EXCEPT !.result = NULL]
    /\ pc' = Tail(pc)
    /\ UNCHANGED <<regs, hist, meas_>>

\* The headers of block b after the real allocator copied the block's first
\* Min(b.len, n) bytes to q.
Moved(b, q, n) ==
    LET old == HeadersIn(b)
        kept == {a \in old :
                   (a - b.base) + sizeof_BlockHeader <=
                       (IF b.len <= n THEN b.len ELSE n)}
        rest == Drop(shim.hdr, old) IN
    [a \in (DOMAIN rest) \cup {q + (k - b.base) : k \in kept} |->
        IF a \in DOMAIN rest THEN rest[a]
        ELSE shim.hdr[(a - q) + b.base]]

\* The real allocator's realloc: NULL with the block left alone, or a block
\* of n bytes at the same or another address with the old content.  A
\* pointer that is not one of its blocks is undefined behaviour: the process
\* is killed, or goes on with a corrupted heap and no block.
libc_realloc ==
    /\ At("libc_realloc")
    /\ LET p == Head(pc).i[1]
           n == Head(pc).i[2]
           logged == [shim EXCEPT !.req = Append(@, <<"realloc", p, n>>)] IN
       IF \E b \in shim.blocks : b.base = p
       THEN LET b == CHOOSE c \in shim.blocks : c.base = p IN
            /\ \E q \in {NULL} \cup
                        {c \in Bases : FitsIn(shim.blocks \ {b}, c, n)} :
                 shim' = IF q = NULL THEN [logged EXCEPT !.ptr = NULL]
                         ELSE [logged EXCEPT
                                 !.ptr = q,
                                 !.blocks = (@ \ {b}) \cup
                                            {[base |-> q, len |-> n]},
                                 !.hdr = Moved(b, q, n)]
            /\ pc' = Tail(pc)
       ELSE \/ /\ shim' = [logged EXCEPT !.fault = "crash"]
               /\ pc' = <<>>
            \/ /\ shim' = [logged EXCEPT !.fault = "corrupt", !.ptr = NULL]
               /\ pc' = Tail(pc)
    /\ UNCHANGED <<regs, hist, meas_>>

\* The offset field found in a header at address a that was not written.
OffsetAt(a) ==
    IF contains(shim.hdr, a) THEN {shim.hdr[a].offset}
    ELSE {h.offset : h \in GarbageHeaders}

\* the new size notified as released instead of the old one
realloc_stamp_freeing_new ==
    /\ At("realloc_stamp")
    /\ \/ /\ shim.ptr = NULL
          /\ shim' = Crash
          /\ pc' = <<>>
       \/ /\ \E o \in OffsetAt(shim.ptr) :
               shim' = [shim EXCEPT !.hdr = Put(@, shim.ptr,
                           [magic |-> MEMBLOCK_MAGIC, size |-> shim.size,
                            offset |-> o])]
          /\ pc' = <<PInstr("on_free", "shim", shim.size),
                     Instr("on_malloc", "shim"),
                     Instr("realloc_return", "shim")>> \o Tail(pc)
    /\ UNCHANGED <<regs, hist, meas_>>

\* realloc: auto new_block = (BlockHeader*)new_ptr;
\*          new_block->magic = MEMBLOCK_MAGIC; new_block->size = size;
\*          on_free(old_size); on_malloc(size);
\* new_ptr is not tested: when the real allocator failed the header is
\* written through a null pointer, which is undefined behaviour: the process
\* is killed, or the write lands at address 0 and the call goes on.
realloc_stamp ==
    /\ At("realloc_stamp")
    /\ \/ /\ shim.ptr = NULL
          /\ shim' = Crash
          /\ pc' = <<>>
       \/ /\ \E o \in OffsetAt(shim.ptr) :
               shim' = [shim EXCEPT !.hdr = Put(@, shim.ptr,
                           [magic |-> MEMBLOCK_MAGIC, size |-> shim.size,
                            offset |-> o])]
          /\ pc' = <<PInstr("on_free", "shim", shim.seen.size),
                     Instr("on_malloc", "shim"),
                     Instr("realloc_return", "shim")>> \o Tail(pc)
    /\ UNCHANGED <<regs, hist, meas_>>

\* realloc: return (char*)new_ptr + sizeof(BlockHeader);
realloc_return ==
    /\ At("realloc_return")
    /\ LET r == (shim.ptr + sizeof_BlockHeader) % SizeMod IN
       shim' = [shim EXCEPT !.result = r,
                            !.owned = Held(r, shim.ptr, shim.size)]
    /\ pc' = Tail(pc)
    /\ UNCHANGED <<regs, hist, meas_>>

\* realloc: return __libc_realloc(ptr, size); the application keeps its
\* pointer when the real allocator failed.
realloc_foreign ==
    /\ At("realloc_foreign")
    /\ shim' = [shim EXCEPT
                  !.result = shim.ptr,
                  !.owned = IF shim.ptr = NULL
                            THEN Put(@, shim.arg, shim.given)
                            ELSE Put(@, shim.ptr,
                                     [base |-> shim.ptr, size |-> shim.size,
                                      managed |-> FALSE, zero |-> FALSE])]
    /\ pc' = Tail(pc)
    /\ UNCHANGED <<regs, hist, meas_>>

\* idiv_ceil, in size_t
idiv_ceil(a, b) == ((((a + b) % SizeMod) - 1) % SizeMod) \div b

\* aligned_alloc: idiv_ceil(sizeof(BlockHeader), alignment) * alignment
aligned_header_size(alignment) ==
    (idiv_ceil(sizeof_BlockHeader, alignment) * alignment) % SizeMod

\* memalign: return aligned_alloc(alignment, size);
memalign ==
    /\ At("memalign")
    /\ pc' = <<Instr("aligned_alloc", "shim")>> \o Tail(pc)
    /\ UNCHANGED <<regs, hist, meas>>

\* posix_memalign: *memptr = aligned_alloc(alignment, size); ...
posix_memalign ==
    /\ At("posix_memalign")
    /\ pc' = <<Instr("aligned_alloc", "shim"),
               Instr("posix_memalign_end", "shim")>> \o Tail(pc)
    /\ UNCHANGED <<regs, hist, meas>>

\* posix_memalign: *memptr = ...; return 0;
posix_memalign_end ==
    /\ At("posix_memalign_end")
    /\ shim' = [shim EXCEPT !.memptr = shim.result, !.result = 0]
    /\ pc' = Tail(pc)
    /\ UNCHANGED <<regs, hist, meas_>>

\* aligned_alloc: if(!size || !alignment) return NULL;
\*     void *ptr = __libc_memalign(alignment, size + aligned_header_size);
aligned_alloc ==
    /\ At("aligned_alloc")
    /\ IF shim.size = 0 \/ shim.alignment = 0
       THEN /\ shim' = [shim EXCEPT !.result = NULL]
            /\ pc' = Tail(pc)
       ELSE /\ shim' = shim
            /\ pc' = <<PInstr("libc_memalign", "shim",
                         <<shim.alignment,
                           (shim.size + aligned_header_size(shim.alignment))
                               % SizeMod>>),
                       Instr("aligned_stamp", "shim")>> \o Tail(pc)
    /\ UNCHANGED <<regs, hist, meas_>>

\* The real allocator: NULL, or a block of n bytes not in use at a multiple
\* of the alignment.
libc_memalign ==
    /\ At("libc_memalign")
    /\ LET a == Head(pc).i[1]
           n == Head(pc).i[2] IN
       \E p \in {NULL} \cup {b \in Bases : b % a = 0 /\ Fits(b, n)} :
          shim' = [shim EXCEPT
                     !.ptr = p,
                     !.blocks = IF p = NULL THEN @
                                ELSE @ \cup {[base |-> p, len |-> n]},
                     !.req = Append(@, <<"memalign", a, n>>)]
    /\ pc' = Tail(pc)
    /\ UNCHANGED <<regs, hist, meas_>>

\* aligned_alloc: if(!ptr) return ptr;
\*     offset = aligned_header_size - sizeof(BlockHeader);
\*     block = (BlockHeader*)((char*)ptr + offset);
\*     block->magic = MEMBLOCK_MAGIC; block->size = size;
\*     block->offset = offset;
aligned_stamp ==
    /\ At("aligned_stamp")
    /\ IF shim.ptr = NULL
       THEN /\ shim' = [shim EXCEPT !.result = NULL]
            /\ pc' = Tail(pc)
       ELSE LET offset == (aligned_header_size(shim.alignment)
                             - sizeof_BlockHeader) % SizeMod IN
            /\ shim' = [shim EXCEPT !.hdr = Put(@, (shim.ptr + offset) % SizeMod,
                           [magic |-> MEMBLOCK_MAGIC, size |-> shim.size,
                            offset |-> offset])]
            /\ pc' = <<Instr("on_malloc", "shim"),
                       Instr("aligned_return", "shim")>> \o Tail(pc)
    /\ UNCHANGED <<regs, hist, meas_>>

\* aligned_alloc: return (char*)ptr + aligned_header_size;
aligned_return ==
    /\ At("aligned_return")
    /\ LET r == (shim.ptr + aligned_header_size(shim.alignment)) % SizeMod IN
       shim' = [shim EXCEPT !.result = r,
                            !.owned = Held(r, shim.ptr, shim.size)]
    /\ pc' = Tail(pc)
    /\ UNCHANGED <<regs, hist, meas_>>

\* calloc: size *= num; if(!size) return NULL; void* ptr = malloc(size);
calloc ==
    /\ At("calloc")
    /\ LET size == (shim.size * shim.num) % SizeMod IN
        /\ shim' = [shim EXCEPT !.size = size, !.result = NULL]
        /\ pc' = IF size = 0 THEN Tail(pc)
                 ELSE <<Instr("malloc", "shim"),
                        Instr("calloc_memset", "shim")>> \o Tail(pc)
    /\ UNCHANGED <<regs, hist, meas_>>

\* calloc: memset(ptr, 0, size); return ptr;
\* ptr is not tested: when malloc returned null, size bytes are written
\* through a null pointer, and when the real allocator's block is shorter
\* than header and size, behind the block.  Both are undefined behaviour:
\* the process is killed, or goes on (with a corrupted heap in the second
\* case).
calloc_memset ==
    /\ At("calloc_memset")
    /\ IF shim.result = NULL
       THEN \/ /\ shim' = Crash
               /\ pc' = <<>>
            \/ /\ shim' = shim
               /\ pc' = Tail(pc)
       ELSE IF \E b \in shim.blocks :
                 /\ b.base = shim.ptr
                 /\ b.len >= sizeof_BlockHeader + shim.size
       THEN /\ shim' = [shim EXCEPT !.owned[shim.result].zero = TRUE]
            /\ pc' = Tail(pc)
       ELSE \/ /\ shim' = Crash
               /\ pc' = <<>>
            \/ /\ shim' = [shim EXCEPT !.owned[shim.result].zero = TRUE,
                                       !.fault = "corrupt"]
               /\ pc' = Tail(pc)
    /\ UNCHANGED <<regs, hist, meas_>>

NextShim ==
    \/ ShimCall
    \/ FreeCall
    \/ ReallocCall
    \/ AlignedCall
    \/ CallocCall
    \/ ForeignAlloc
    \/ malloc
    \/ libc_malloc
    \/ malloc_stamp
    \/ on_malloc
    \/ hook_on_free
    \/ malloc_return
    \/ free
    \/ libc_free
    \/ realloc
    \/ realloc_null
    \/ libc_realloc
    \/ realloc_stamp
    \/ realloc_return
    \/ realloc_foreign
    \/ memalign
    \/ posix_memalign
    \/ posix_memalign_end
    \/ aligned_alloc
    \/ libc_memalign
    \/ aligned_stamp
    \/ aligned_return
    \/ calloc
    \/ calloc_memset

SpecShim == Init /\ [][NextShim]_vars

\* The shim with one allocation meter listening from the start, used for
\* blocks of the shim only; the runs end with the meter's MaxCalls-th
\* allocation.
TallyCall ==
    /\ counters["c1"].alloc_num_ < MaxCalls
    /\ ShimCall \/ FreeCall \/ ReallocCall \/ AlignedCall \/ CallocCall

NextTally ==
    \/ TallyCall
    \/ malloc
    \/ libc_malloc
    \/ malloc_stamp
    \/ on_malloc
    \/ hook_on_free
    \/ malloc_return
    \/ free
    \/ libc_free
    \/ realloc
    \/ realloc_null
    \/ libc_realloc
    \/ realloc_stamp
    \/ realloc_return
    \/ memalign
    \/ posix_memalign
    \/ posix_memalign_end
    \/ aligned_alloc
    \/ libc_memalign
    \/ aligned_stamp
    \/ aligned_return
    \/ calloc
    \/ calloc_memset

\* MallocCounter c1; c1.start(); has returned.
InitTally ==
    /\ registry_ = <<"c1">>
    /\ critical_ = FALSE
    /\ registered_ = [l \in Listeners |-> l = "c1"]
    /\ alive = [l \in Listeners |-> l = "c1"]
    /\ counters = [l \in Counters |->
                     [NewCounter EXCEPT !.active_ = (l = "c1")]]
    /\ pc = <<>>
    /\ events = 0
    /\ note = NoNote
    /\ calls = <<>>
    /\ obs = [l \in Counters |-> NoObs]
    /\ running = [l \in Counters |-> l = "c1"]
    /\ cur = NoCall
    /\ inside = [l \in Counters |-> {}]
    /\ InitMeas(1)

SpecTally == InitTally /\ [][NextTally]_vars

-----------------------------------------------------------------------------
\* Properties

\* A notification is being raised by this step.
IsNotify == events' = events + 1
InRegistry(reg, l) == \E i \in 1..Len(reg) : reg[i] = l
NoDup(reg) == \A i, j \in 1..Len(reg) : reg[i] = reg[j] => i = j
Zero == <<0, 0, 0, 0, 0, 0>>

\* C1: at every point the balance of a meter is its allocated bytes minus its
\* freed bytes (as a signed value), and its four counters are the numbers and
\* byte sums of the allocate / free callbacks it received since its last
\* start, whatever pause / resume / stop calls came in between.
C1_Balance ==
    \A l \in Counters : alive[l] =>
        LET c == counters[l] IN
        /\ c.current_ = c.alloc_bytes_ - c.free_bytes_
        /\ c.current_ = obs[l].bal
        /\ c.alloc_num_ = obs[l].an
        /\ c.alloc_bytes_ = obs[l].ab
        /\ c.free_num_ = obs[l].fn
        /\ c.free_bytes_ = obs[l].fb

\* A stopped meter that saw one allocation and a larger free.
C1_Witness ==
    \E l \in Counters :
        /\ alive[l] /\ pc = <<>> /\ ~counters[l].active_
        /\ counters[l].alloc_num_ = 1 /\ counters[l].free_num_ = 1
        /\ counters[l].current_ < 0

\* C2: the peak of a meter always is the largest positive value its running
\* balance has had since the last start (0 if there was none); it never
\* decreases except by start, and an allocation that leaves the balance at
\* or below zero leaves it unchanged.
C2_Peak ==
    [][\A l \in Counters :
        /\ alive'[l] => counters'[l].peak_ = obs'[l].maxpos
        /\ (alive[l] /\ alive'[l] /\ ~(At("start") /\ Self = l))
              => counters'[l].peak_ >= counters[l].peak_
        /\ (IsNotify /\ note'.kind = "malloc" /\ alive[l]
                /\ counters'[l].current_ <= 0)
              => counters'[l].peak_ = counters[l].peak_]_vars

\* A meter whose only allocation left the balance below zero.
C2_Witness ==
    \E l \in Counters :
        /\ alive[l] /\ counters[l].alloc_num_ = 1
        /\ counters[l].current_ < 0 /\ counters[l].peak_ = 0

\* C3: a notification raised while a meter is paused, stopped or was never
\* started changes none of its six accumulators.
C3_PausedUnaffected ==
    [][IsNotify =>
        \A l \in Counters : (alive[l] /\ ~running[l])
            => Acc(counters'[l]) = Acc(counters[l])]_vars

\* A notification was dispatched while a meter that has counted before is
\* paused or stopped.
C3_Witness ==
    \E l \in Counters :
        /\ alive[l] /\ ~running[l] /\ counters[l].alloc_num_ > 0
        /\ pc = <<>> /\ note.kind # "none" /\ ~note.guard

\* C4: when start() has returned the six accumulators are zero and the meter
\* is in the registry; when pause() or stop() has returned it is not in the
\* registry and the accumulators are what they were; when resume() has
\* returned it is in the registry and the accumulators are what they were.
C4_Lifecycle ==
    (pc = <<>> /\ cur.self \in Counters) =>
        LET l == cur.self IN
        /\ cur.op = "start" =>
              /\ Acc(counters[l]) = Zero
              /\ InRegistry(registry_, l) /\ counters[l].active_
        /\ cur.op \in {"pause", "stop"} =>
              /\ Acc(counters[l]) = cur.acc
              /\ ~InRegistry(registry_, l) /\ ~counters[l].active_
        /\ cur.op = "resume" =>
              /\ Acc(counters[l]) = cur.acc
              /\ InRegistry(registry_, l) /\ counters[l].active_

\* resume() has returned on a paused meter that had counted before.
C4_Witness ==
    /\ pc = <<>> /\ cur.op = "resume" /\ cur.self \in Counters
    /\ ~InRegistry(cur.reg, cur.self)
    /\ counters[cur.self].peak_ > 0

\* C5: with the guard clear, a notification calls the matching callback of
\* every registered listener exactly once with the notified byte count, in
\* registration order, and changes neither the listener list nor the guard.
C5_Dispatch ==
    [][(IsNotify /\ ~critical_) =>
        /\ calls' = [i \in 1..Len(registry_) |->
                        <<registry_[i], note'.kind, note'.bytes>>]
        /\ registry_' = registry_
        /\ critical_' = critical_]_vars

\* Three listeners were called by one notification.
C5_Witness == Len(calls) = 3 /\ ~note.guard

\* C6: with the guard set, a notification calls no listener and changes
\* nothing: no accumulator, no list, nothing that could deliver it later.
C6_Dropped ==
    [][(IsNotify /\ critical_) =>
        /\ calls' = <<>>
        /\ UNCHANGED <<registry_, critical_, registered_, alive, counters, pc>>
        /\ obs' = obs]_vars

\* A notification was raised with the guard set while a running meter was
\* registered.
C6_Witness ==
    /\ note.guard /\ note.kind # "none"
    /\ \E l \in Counters : InRegistry(registry_, l) /\ counters[l].active_

\* C7: no listener is in the registry twice; register_callback on a listener
\* that is in the registry returns without changing the list, on any other
\* listener it appends the listener at the end.
C7_NoDuplicates ==
    [][/\ NoDup(registry_')
       /\ At("register_callback") =>
            IF InRegistry(registry_, Self)
            THEN registry_' = registry_ /\ pc' = Tail(pc)
            ELSE /\ registry_' = registry_
                 /\ Len(pc') > 0 /\ Head(pc') = Instr("push_back", Self)
       /\ (At("push_back") /\ pc' = Tail(pc)) =>
            registry_' = registry_ \o <<Self>>]_vars

\* register_callback has returned on a listener that was registered already,
\* with another listener registered too.
C7_Witness ==
    /\ pc = <<>> /\ cur.op = "register_callback"
    /\ InRegistry(cur.reg, cur.self)
    /\ Len(registry_) >= 2

\* C8: unregister_callback removes the listener and nothing else, keeping the
\* order of the others; on a listener that is not in the registry it leaves
\* the list as it is.
C8_Unregister ==
    [][At("unregister_end") =>
        /\ registry_' = SelectSeq(registry_, LAMBDA x : x # Self)
        /\ Len(registry_') >= Len(registry_) - 1
        /\ ~InRegistry(registry_, Self) => registry_' = registry_]_vars

\* The middle one of three listeners has been unregistered.
C8_Witness ==
    /\ pc = <<>> /\ cur.op = "unregister_callback"
    /\ Len(cur.reg) = 3 /\ cur.reg[2] = cur.self
    /\ registry_ = <<cur.reg[1], cur.reg[3]>>

\* What one callback does to the six accumulators.
Counted(c, kind, bytes) ==
    IF kind = "malloc"
    THEN <<c.current_ + bytes, c.alloc_num_ + 1, c.alloc_bytes_ + bytes,
           c.free_num_, c.free_bytes_>>
    ELSE <<c.current_ - bytes, c.alloc_num_, c.alloc_bytes_,
           c.free_num_ + 1, c.free_bytes_ + bytes>>
Counts(c) == <<c.current_, c.alloc_num_, c.alloc_bytes_, c.free_num_,
               c.free_bytes_>>

\* A meter that has been listening ever since meter b was started has
\* counted at least what b has counted.
Dominates ==
    \A b \in Counters : \A a \in inside[b] :
        /\ counters[a].alloc_num_ >= counters[b].alloc_num_
        /\ counters[a].alloc_bytes_ >= counters[b].alloc_bytes_
        /\ counters[a].free_num_ >= counters[b].free_num_
        /\ counters[a].free_bytes_ >= counters[b].free_bytes_

\* C9: a dispatched notification is counted exactly once by every meter that
\* is registered, whatever other listeners are registered, and by no other
\* meter; so a meter registered throughout another meter's window has
\* counted everything the other one has.
C9_Independent ==
    [][/\ (IsNotify /\ ~critical_) =>
            \A l \in Counters : alive[l] =>
                Counts(counters'[l]) =
                    IF InRegistry(registry_, l)
                    THEN Counted(counters[l], note'.kind, note'.bytes)
                    ELSE Counts(counters[l])
       /\ Dominates']_vars

\* The inner meter has been stopped with one allocation counted, the outer
\* one has counted that one and one more.
C9_Witness ==
    \E b \in Counters : \E a \in inside[b] :
        /\ ~counters[b].active_ /\ counters[b].alloc_num_ = 1
        /\ counters[a].active_ /\ counters[a].alloc_num_ = 2

\* C10: the registry never holds a listener that has been destroyed, and no
\* callback is invoked on one.
C10_NoDangling ==
    /\ \A i \in 1..Len(registry_) : alive[registry_[i]]
    /\ \A i \in 1..Len(calls) : alive[calls[i][1]]

\* A listener has been destroyed while it was registered, another one still
\* is registered.
C10_Witness ==
    /\ pc = <<>> /\ cur.op = "destroy"
    /\ InRegistry(cur.reg, cur.self) /\ ~alive[cur.self]
    /\ Len(registry_) >= 1

-----------------------------------------------------------------------------
\* Properties of Phase, Stopwatch and the documents

\* The meter calls a call of op on phase p has to make, first to last as
\* declared.
Declared(p, op) == [i \in 1..num_meters(p) |-> <<Meters(p)[i], op>>]
\* The same, last to first.
Reversed(p, op) ==
    [i \in 1..num_meters(p) |-> <<Meters(p)[num_meters(p) + 1 - i], op>>]
\* The application call op on a phase has returned.
Returned(ops) == pc = <<>> /\ pcur.self \in Phases /\ pcur.op \in ops

\* C11: when start() or resume() of a phase has returned, it has called the
\* same member function once on every declared meter, the first declared
\* first, and the phase's allocation meters are listening.
C11_DeclarationOrder ==
    Returned({"start", "resume"}) =>
        /\ mlog = Declared(pcur.self, pcur.op)
        /\ \A m \in Range(Meters(pcur.self)) \cap Counters :
              counters[m].active_ /\ InRegistry(registry_, m)

C11_Witness ==
    /\ Returned({"resume"})
    /\ pcur.self = "P"
    /\ mlog = <<<<"c1", "resume">>, <<"s1", "resume">>, <<"s2", "resume">>>>

\* C12: when pause() or stop() of a phase has returned, it has called the
\* same member function once on every declared meter, the last declared
\* first, and none of the phase's allocation meters is listening.
C12_ReverseOrder ==
    Returned({"pause", "stop"}) =>
        /\ mlog = Reversed(pcur.self, pcur.op)
        /\ \A m \in Range(Meters(pcur.self)) \cap Counters :
              ~counters[m].active_ /\ ~InRegistry(registry_, m)

C12_Witness ==
    /\ Returned({"stop"})
    /\ pcur.self = "P"
    /\ mlog = <<<<"s2", "stop">>, <<"s1", "stop">>, <<"c1", "stop">>>>
    /\ sw["s1"].elapsed_ > sw["s2"].elapsed_

\* What a meter reports when asked now.
Snapshot(m) ==
    IF m \in Counters
    THEN [peak |-> counters[m].peak_, closing |-> counters[m].current_,
          alloc_num |-> counters[m].alloc_num_,
          alloc_bytes |-> counters[m].alloc_bytes_,
          free_num |-> counters[m].free_num_,
          free_bytes |-> counters[m].free_bytes_]
    ELSE sw[m].elapsed_
\* The keys of the meters of phase p, and the last declared meter with key k.
Keys(p) == {key(m) : m \in Range(Meters(p))}
LastWith(p, k) ==
    LET i == CHOOSE i \in 1..num_meters(p) :
                 /\ key(Meters(p)[i]) = k
                 /\ \A j \in (i + 1)..num_meters(p) : key(Meters(p)[j]) # k
    IN Meters(p)[i]
\* The document of phase p as the state is now: the documents appended
\* to it, what its meters report, and what was written to its data.
ExpectedKeys(p) ==
    {"name"} \cup (IF alog[p] # <<>> THEN {"children"} ELSE {})
             \cup (IF num_meters(p) > 0 THEN {"metrics"} ELSE {})
             \cup (IF ~empty(phases[p].data_) THEN {"data"} ELSE {})
Expected(p) ==
    [k \in ExpectedKeys(p) |->
        CASE k = "name" -> name_(p)
          [] k = "children" -> alog[p]
          [] k = "metrics" -> [x \in Keys(p) |-> Snapshot(LastWith(p, x))]
          [] k = "data" -> phases[p].data_]
\* No allocation meter of phase p is listening.
Quiet(p) == \A m \in Range(Meters(p)) \cap Counters : ~InRegistry(registry_, m)
Last(q) == q[Len(q)]

\* C13: the document gather_data returned for a phase (nothing was changed
\* since) holds name, which is the phase's name and empty for the anonymous
\* phase; it holds children iff a child was appended to the phase, metrics
\* iff the phase declares a meter, and data iff something was written to the
\* data attachment.
C13_DocumentKeys ==
    \A p \in Phases : fresh = p =>
        /\ contains(ret, "name") /\ ret["name"] = name_(p)
        /\ contains(ret, "children") <=> alog[p] # <<>>
        /\ contains(ret, "metrics") <=> num_meters(p) > 0
        /\ contains(ret, "data") <=> phases[p].data_ # Null

C13_Witness ==
    /\ fresh = "D"
    /\ DOMAIN ret = {"name", "children", "data"}
    /\ ret["name"] = ""
    /\ Len(ret["children"]) = 1
    /\ DOMAIN ret["children"][1] = {"name", "metrics"}

\* A gather_data call made by the application is being executed.
InGather == pc # <<>> /\ pcur.op = "gather_data"

\* C14 as claimed: no step of a gather_data call changes the meters, the
\* data attachments, the stored children or the listener registry, and a
\* call that follows a call on the same phase with nothing done in between
\* returns an equal document.
C14_ReadOnly ==
    [][/\ InGather => UNCHANGED <<counters, sw, phases, registry_, registered_>>
       /\ (At("gather_data_return") /\ fresh = Self) => ret' = ret]_vars

\* C14, amended: no step of a gather_data call changes the stopwatches, the
\* data attachments, the stored children or the listener registry; an
\* allocation meter that is not listening is not changed either; and a call
\* that follows a call on the same phase with nothing done in between
\* returns an equal document if no allocation meter of the phase is
\* listening.
C14_ReadOnlyWhileQuiet ==
    [][/\ InGather =>
            /\ UNCHANGED <<sw, phases, registry_, registered_>>
            /\ \A m \in Counters :
                  ~InRegistry(registry_, m) => counters'[m] = counters[m]
       /\ (At("gather_data_return") /\ fresh = Self /\ Quiet(Self)) => ret' = ret
      ]_vars

\* A repeated call is about to return a second time the document of the
\* paused phase, which has counted an allocation.
C14_Witness ==
    /\ At("gather_data_return")
    /\ InGather
    /\ fresh = "P"
    /\ Quiet("P")
    /\ counters["c1"].alloc_num_ = 1
    /\ ret["metrics"]["memory"]["alloc_num"] = 1
    /\ Finish("P", gd) = ret

\* C15 as claimed: the document gather_data returned for a phase (nothing
\* was changed since) maps the key of every declared meter to what that
\* meter reports, and holds the data attachment.
C15_EveryMeter ==
    \A p \in Phases : fresh = p =>
        /\ \A m \in Range(Meters(p)) :
              /\ contains(ret, "metrics")
              /\ contains(ret["metrics"], key(m))
              /\ ret["metrics"][key(m)] = Snapshot(m)
        /\ ~empty(phases[p].data_) =>
              contains(ret, "data") /\ ret["data"] = phases[p].data_

\* C15, amended: the document gather_data returned for a phase (nothing was
\* changed since) maps every key of a declared meter to what the last
\* declared meter with that key reports, for an allocation meter provided it
\* is not listening; it holds the data attachment; and a write
\* data()["sum"] = v leaves v in the attachment.
C15_Snapshot ==
    /\ \A p \in Phases : fresh = p =>
        /\ num_meters(p) > 0 =>
              /\ contains(ret, "metrics")
              /\ DOMAIN ret["metrics"] = Keys(p)
              /\ \A k \in Keys(p) :
                    (LastWith(p, k) \in Counters => Quiet(p)) =>
                        ret["metrics"][k] = Snapshot(LastWith(p, k))
        /\ ~empty(phases[p].data_) =>
              contains(ret, "data") /\ ret["data"] = phases[p].data_
    /\ Returned({"data"}) => phases[pcur.self].data_[DataKey] = pcur.arg

C15_Witness ==
    /\ fresh = "P"
    /\ Quiet("P")
    /\ ret["metrics"]["memory"] =
          [peak |-> 0, closing |-> -2, alloc_num |-> 0, alloc_bytes |-> 0,
           free_num |-> 1, free_bytes |-> 2]
    /\ sw["s1"].elapsed_ = 1
    /\ ret["metrics"]["time"] = 0
    /\ contains(ret, "data")
    /\ ret["data"][DataKey] = 2

\* An append_child call with a child other than the parent has returned.
Appended == Returned({"append_child"}) /\ pcur.arg # pcur.self

\* C16: a phase holds the documents gathered from the children at the
\* append_child calls, unchanged whatever was done to the children since
\* and in the order of the calls; right after a call the stored document is
\* the document of the child (whose allocation meters are not listening);
\* and the document gather_data returns for the parent lists the stored
\* documents in that order.
C16_ChildDocuments ==
    /\ \A p \in Phases : phases[p].children_ = alog[p]
    /\ (Appended /\ Quiet(pcur.arg)) =>
          Last(phases[pcur.self].children_) = Expected(pcur.arg)
    /\ \A p \in Phases : (fresh = p /\ alog[p] # <<>>) =>
          contains(ret, "children") /\ ret["children"] = alog[p]

\* The parent lists two documents of the same child in the order they
\* were appended; the child was written to after the first.
C16_Witness ==
    /\ fresh = "D"
    /\ Len(alog["D"]) = 2
    /\ contains(ret, "children")
    /\ ret["children"] = alog["D"]
    /\ DOMAIN alog["D"][1] = {"name", "metrics"}
    /\ DOMAIN alog["D"][2] = {"name", "metrics", "data"}
    /\ alog["D"][2]["data"][DataKey] = 2
    /\ Expected("P") = alog["D"][2]

\* C17 as claimed: when append_child has returned, the child is left
\* without data and without children.
C17_ChildConsumed ==
    Appended => phases[pcur.arg] = NewPhase

\* What append_child does instead: when it has returned, the child's data
\* and children are in the document the parent stored and in the child too.
ChildKept ==
    Appended =>
        LET doc == Last(phases[pcur.self].children_)
            child == phases[pcur.arg]
        IN /\ ~empty(child.data_) =>
                 contains(doc, "data") /\ doc["data"] = child.data_
           /\ child.children_ # <<>> =>
                 contains(doc, "children") /\ doc["children"] = child.children_
           /\ contains(doc, "data") => child.data_ = doc["data"]
           /\ contains(doc, "children") => child.children_ = doc["children"]

\* append_child has returned and the child's data is in both phases.
C17_Witness ==
    /\ Appended
    /\ pcur.self = "P"
    /\ pcur.arg = "D"
    /\ ~empty(phases["D"].data_)
    /\ phases["D"].data_[DataKey] = 2
    /\ contains(Last(phases["P"].children_), "data")
    /\ Last(phases["P"].children_)["data"][DataKey] = 2

\* The application's call op of stopwatch w has returned.
WatchReturned(w, op) == pc = <<>> /\ pcur.self = w /\ pcur.op = op

\* C18: start() leaves the accumulated duration at zero, so the stopwatch
\* shows 0 when start has returned, and takes the segment start from the
\* clock; resume() takes the segment start from the clock and leaves the
\* accumulated duration alone; apart from the reset of start, the accumulated
\* duration changes only in pause() and stop(), by adding the clock's time
\* minus the segment start.
C18_StartResumePause ==
    [][\A w \in OwnWatches :
         /\ (pc # <<>> /\ pc' = <<>> /\ pcur.self = w /\ pcur.op = "start") =>
               /\ elapsed_time_millis(sw'[w]) = 0
               /\ sw'[w].start_ = now
         /\ (At("sw_resume") /\ Self = w /\ pc' # pc) =>
               /\ sw'[w].start_ = now
               /\ sw'[w].elapsed_ = sw[w].elapsed_
         /\ sw'[w].elapsed_ # sw[w].elapsed_ =>
               \/ pcur.op = "start" /\ sw'[w].elapsed_ = 0
               \/ /\ pcur.op \in {"pause", "stop"}
                  /\ sw'[w].elapsed_ = sw[w].elapsed_ + (now - sw[w].start_)
         /\ sw'[w].start_ # sw[w].start_ => pcur.op \in {"start", "resume"}
      ]_vars

\* A stopwatch that ran and was paused has been resumed later: it has a new
\* segment start and still shows the first segment.
C18_Witness ==
    /\ WatchReturned("s1", "resume")
    /\ wgh["s1"].st = "running"
    /\ sw["s1"].elapsed_ = 1
    /\ sw["s1"].start_ = now
    /\ now = 3

\* C19: when a stopwatch was driven by start, pause/resume pairs and a stop,
\* it shows at least the time between the return of each start or resume and
\* the call of the following pause or stop, and at most the time between the
\* call of each start or resume and the return of the following pause or
\* stop: none of the time between a pause and its resume is in it.
C19_ElapsedSum ==
    \A w \in OwnWatches :
        (pc = <<>> /\ wgh[w].st = "stopped") =>
            /\ wgh[w].lo <= sw[w].elapsed_
            /\ sw[w].elapsed_ <= wgh[w].hi

\* Three equal intervals, running, paused and running: the stopwatch shows two.
C19_Witness ==
    /\ WatchReturned("s1", "stop")
    /\ wgh["s1"] = [st |-> "stopped", lo |-> 2, hi |-> 2, idle |-> 1,
                     on |-> FALSE, run |-> 2]
    /\ sw["s1"].elapsed_ = 2

\* malloc has returned to the application.
MallocReturned == pc = <<>> /\ pcur.op = "malloc"

\* C20: malloc(0) returns null without a notification; a malloc(size) with
\* size > 0 to which the real allocator gave a block has asked it for size
\* plus the header size, has stamped the header at the block's start with
\* the sentinel, size and offset 0, has raised exactly one allocation
\* notification of size bytes, and returns the address after the header.
C20_Malloc ==
    MallocReturned =>
        /\ shim.size = 0 =>
              /\ shim.result = NULL
              /\ shim.notes = <<>>
              /\ shim.req = <<>>
        /\ (shim.size > 0 /\ shim.ptr # NULL) =>
              /\ shim.req = <<<<"malloc", shim.size + sizeof_BlockHeader>>>>
              /\ contains(shim.hdr, shim.ptr)
              /\ shim.hdr[shim.ptr] = [magic |-> MEMBLOCK_MAGIC,
                                       size |-> shim.size, offset |-> 0]
              /\ shim.notes = <<<<"malloc", shim.size>>>>
              /\ shim.result = shim.ptr + sizeof_BlockHeader

\* malloc(SIZE_MAX) has returned a block: the real allocator was asked for
\* less than a header, and the address returned lies behind its block.
C20_Witness ==
    /\ MallocReturned
    /\ shim.size = SIZE_MAX
    /\ shim.notes = <<<<"malloc", SIZE_MAX>>>>
    /\ \E b \in shim.blocks :
          /\ b.base = shim.ptr
          /\ b.len < sizeof_BlockHeader
          /\ shim.result >= b.base + b.len

\* The call op of the shim has returned to the application.
ShimReturned(op) == Running /\ pcur.self = "shim" /\ pcur.op = op

\* C21: free(null) calls nothing and notifies nothing; free of a pointer
\* whose header carries the sentinel raises exactly one free notification of
\* the size in the header and hands the header address minus the header's
\* offset to the real free, which for a pointer the shim returned is the
\* pointer the real allocator gave and the size the application asked for;
\* free of a pointer whose header does not carry the sentinel hands the
\* pointer itself to the real free and notifies nothing.
C21_Free ==
    ShimReturned("free") =>
        LET block == (shim.arg - sizeof_BlockHeader) % SizeMod IN
        /\ shim.arg = NULL => shim.req = <<>> /\ shim.notes = <<>>
        /\ (shim.arg # NULL /\ is_managed(shim.seen)) =>
              /\ shim.notes = <<<<"free", shim.seen.size>>>>
              /\ shim.req =
                    <<<<"free", (block - shim.seen.offset) % SizeMod>>>>
        /\ (shim.arg # NULL /\ shim.given.managed) =>
              /\ is_managed(shim.seen)
              /\ shim.notes = <<<<"free", shim.given.size>>>>
              /\ shim.req = <<<<"free", shim.given.base>>>>
        /\ (shim.arg # NULL /\ ~is_managed(shim.seen)) =>
              /\ shim.notes = <<>>
              /\ shim.req = <<<<"free", shim.arg>>>>

\* A block of aligned_alloc(16, 8), whose header lies 8 bytes into the real
\* allocator's block, has been freed: the real allocator has its block back.
C21_Witness ==
    /\ ShimReturned("free")
    /\ shim.fault = "none"
    /\ shim.given.managed
    /\ shim.seen = [magic |-> MEMBLOCK_MAGIC, size |-> 8, offset |-> 8]
    /\ shim.arg = shim.given.base + 32
    /\ shim.notes = <<<<"free", 8>>>>
    /\ \A b \in shim.blocks : b.base # shim.given.base

\* The call op of the shim has ended: it returned or the process was killed.
ShimEnded(op) == pc = <<>> /\ pcur.self = "shim" /\ pcur.op = op

\* What a realloc call that was passed a block of the shim has to have done.
ReallocManaged ==
    /\ shim.fault # "crash"
    /\ shim.notes = <<<<"free", shim.given.size>>, <<"malloc", shim.size>>>>
    /\ \E b \in shim.blocks : b.base = shim.ptr
    /\ contains(shim.hdr, shim.ptr)
    /\ is_managed(shim.hdr[shim.ptr])
    /\ shim.hdr[shim.ptr].size = shim.size
    /\ shim.result = shim.ptr + sizeof_BlockHeader

\* C22: realloc(ptr, 0) does what free(ptr) does and returns null;
\* realloc(null, size) does what malloc(size) does; realloc of a block of the
\* shim raises a free notification of the size the block had and then an
\* allocation notification of the new size, and the block that results
\* carries a header with the new size; realloc of a pointer whose header
\* does not carry the sentinel hands pointer and size to the real realloc,
\* returns what that returns, and notifies nothing.
C22_Realloc ==
    ShimEnded("realloc") =>
        /\ shim.size = 0 =>
              /\ shim.result = NULL
              /\ shim.arg = NULL => shim.req = <<>> /\ shim.notes = <<>>
              /\ (shim.arg # NULL /\ shim.given.managed) =>
                    /\ shim.notes = <<<<"free", shim.given.size>>>>
                    /\ shim.req = <<<<"free", shim.given.base>>>>
              /\ (shim.arg # NULL /\ ~is_managed(shim.seen)) =>
                    /\ shim.notes = <<>>
                    /\ shim.req = <<<<"free", shim.arg>>>>
        /\ (shim.size > 0 /\ shim.arg = NULL) =>
              /\ shim.req = <<<<"malloc",
                               (shim.size + sizeof_BlockHeader) % SizeMod>>>>
              /\ shim.ptr = NULL => shim.result = NULL /\ shim.notes = <<>>
              /\ shim.ptr # NULL =>
                    /\ shim.notes = <<<<"malloc", shim.size>>>>
                    /\ shim.result = shim.ptr + sizeof_BlockHeader
        /\ (shim.size > 0 /\ shim.arg # NULL /\ shim.given.managed) =>
              ReallocManaged
        /\ (shim.size > 0 /\ shim.arg # NULL /\ ~is_managed(shim.seen)) =>
              /\ shim.notes = <<>>
              /\ shim.req = <<<<"realloc", shim.arg, shim.size>>>>
              /\ shim.result = shim.ptr

\* realloc of a block of malloc(8) has returned although the real allocator
\* had no block to give: both notifications were raised and the pointer
\* returned is the header size.
C22_Witness ==
    /\ ShimReturned("realloc")
    /\ shim.given = [base |-> 16, size |-> 8, managed |-> TRUE, zero |-> FALSE]
    /\ shim.size = 1
    /\ shim.ptr = NULL
    /\ shim.notes = <<<<"free", 8>>, <<"malloc", 1>>>>
    /\ shim.result = sizeof_BlockHeader

\* aligned_alloc, memalign or posix_memalign has returned to the application.
AlignedReturned ==
    /\ Running
    /\ pcur.self = "shim"
    /\ pcur.op \in {"aligned_alloc", "memalign", "posix_memalign"}

\* The pointer the application got from it.
AlignedPointer ==
    IF pcur.op = "posix_memalign" THEN shim.memptr ELSE shim.result

\* C23: aligned allocation with size or alignment 0 returns null, calls
\* nothing and notifies nothing; with both nonzero and a block from the real
\* allocator, the pointer returned is a multiple of the alignment, the header
\* lies right in front of it and inside the real allocator's block, the
\* header's offset is the distance from the block's start to the header (so
\* that header address minus offset is the pointer to release), and exactly
\* one allocation of size bytes is notified.
C23_AlignedAlloc ==
    AlignedReturned =>
        LET p == AlignedPointer
            block == p - sizeof_BlockHeader IN
        /\ (shim.size = 0 \/ shim.alignment = 0) =>
              /\ p = NULL
              /\ shim.notes = <<>>
              /\ shim.req = <<>>
        /\ (shim.size > 0 /\ shim.alignment > 0 /\ shim.ptr # NULL) =>
              /\ p % shim.alignment = 0
              /\ contains(shim.hdr, block)
              /\ is_managed(shim.hdr[block])
              /\ shim.hdr[block].size = shim.size
              /\ block - shim.hdr[block].offset = shim.ptr
              /\ \E b \in shim.blocks :
                    /\ b.base = shim.ptr
                    /\ b.base <= block
                    /\ p <= b.base + b.len
              /\ shim.notes = <<<<"malloc", shim.size>>>>

\* aligned_alloc(16, SIZE_MAX) has returned a pointer: the real allocator's
\* block ends before the header does.
C23_Witness ==
    /\ AlignedReturned
    /\ shim.alignment = 16
    /\ shim.size = SIZE_MAX
    /\ AlignedPointer = shim.ptr + 32
    /\ shim.notes = <<<<"malloc", SIZE_MAX>>>>
    /\ \E b \in shim.blocks :
          /\ b.base = shim.ptr
          /\ b.len < 32

\* The entry points that allocate.
AllocOps ==
    {"malloc", "aligned_alloc", "memalign", "posix_memalign", "calloc",
     "realloc"}

\* The last call of the running shim call to the real allocator asked for a
\* block (for realloc: of one of its blocks) and got null.
AllocFailed ==
    /\ shim.req # <<>>
    /\ shim.ptr = NULL
    /\ LET r == shim.req[Len(shim.req)] IN
          \/ r[1] \in {"malloc", "memalign"}
          \/ r[1] = "realloc" /\ r[2] = shim.given.base

\* C24: when the real allocator returns null to an allocating entry point,
\* the entry point returns null to the application, notifies nothing and
\* writes no header at address null.
C24_NullPropagated ==
    \A op \in AllocOps :
        (ShimEnded(op) /\ AllocFailed) =>
            /\ shim.fault # "crash"
            /\ (IF op = "posix_memalign" THEN shim.memptr ELSE shim.result)
                   = NULL
            /\ shim.notes = <<>>
            /\ ~contains(shim.hdr, NULL)

\* calloc(1, 2) was given no block by the real allocator and the process was
\* killed in memset.
C24_Witness ==
    /\ ShimEnded("calloc")
    /\ AllocFailed
    /\ shim.req = <<<<"malloc", 2 + sizeof_BlockHeader>>>>
    /\ shim.fault = "crash"

\* C25: in the build without PM_MALLOC, whatever the application does with
\* its meters and whatever the process allocates, no listener is ever
\* registered, the guard is never set, and every allocation meter shows 0
\* for its balance, peak, and numbers and bytes of allocations and frees.
C25_AlwaysZero ==
    /\ registry_ = <<>>
    /\ ~critical_
    /\ \A l \in Listeners : ~registered_[l]
    /\ \A c \in Counters :
          /\ counters[c].current_ = 0
          /\ counters[c].peak_ = 0
          /\ counters[c].alloc_num_ = 0
          /\ counters[c].alloc_bytes_ = 0
          /\ counters[c].free_num_ = 0
          /\ counters[c].free_bytes_ = 0

\* A meter is measuring and the process has allocated since.
C25_Witness ==
    /\ pc = <<>>
    /\ counters["c1"].active_
    /\ running["c1"]
    /\ note.kind = "malloc"
    /\ events = MaxEvents
    /\ counters["c1"].alloc_num_ = 0

Rendered(from) ==
    CASE from.type = "bool" -> IF from.v THEN "true" ELSE "false"
      [] from.type = "int" -> ToString(from.v)
      [] from.type = "string" -> from.v
      [] from.type = "double" /\ from.v = Double(3, 1) -> "3.125"

\* Whether a key the application uses comes before another one.
Before ==
    [a \in {x.key : x \in AddInputs}, b \in {x.key : x \in AddInputs} |->
        StrLess(a, b)]

\* The texts that have, for each of the pairs a, one space and key=value,
\* in an order in which no key comes before the key in front of it.
RECURSIVE Ascending(_)
Ascending(a) ==
    IF a = <<>> THEN {""}
    ELSE UNION {{" " \o a[i].key \o "=" \o Rendered(a[i].from) \o t :
                    t \in Ascending(RemoveAt(a, i))} :
                i \in {i \in 1..Len(a) :
                          \A j \in 1..Len(a) : ~Before[a[j].key, a[i].key]}}

\* The pairs added in the test of pm.cpp.
TestPairs ==
    {[key |-> "str", from |-> Value("string", "test")],
     [key |-> "int", from |-> Value("int", 0 - 1337)],
     [key |-> "double", from |-> Value("double", Double(3, 1))],
     [key |-> "bool", from |-> Value("bool", FALSE)]}

\* str() or print() has returned and sort() was the last call that changed
\* the pairs.
PrintedSorted ==
    /\ pc = <<>>
    /\ pcur.self = "R"
    /\ pcur.op \in {"str", "print"}
    /\ result.sorted

\* C27: after sort(), str() and print() give the prefix followed, for each
\* pair added, in ascending order of the keys, by one space and key=value,
\* with a bool as true or false, an integer in decimal and a string as it
\* is; print() ends the line if asked to.  For the pairs str=test,
\* int=-1337, double=3.125, bool=false, added in any order, str() gives
\* RESULT bool=false double=3.125 int=-1337 str=test.
C27_SortedLine ==
    PrintedSorted =>
        /\ \E t \in Ascending(result.added) :
            ret = pcur.arg.prefix \o t \o (IF pcur.arg.nl THEN "\n" ELSE "")
        /\ (/\ Len(result.added) = 4
            /\ Range(result.added) = TestPairs
            /\ pcur.op = "str"
            /\ pcur.arg.prefix = "RESULT") =>
                ret = "RESULT bool=false double=3.125 int=-1337 str=test"

\* The four pairs were added in the order of the test, the Result was
\* sorted and str() has returned the line.
C27_Witness ==
    /\ PrintedSorted
    /\ pcur.op = "str"
    /\ Len(result.added) = 4
    /\ result.added[1].key = "str"
    /\ result.added[4].key = "bool"
    /\ Range(result.added) = TestPairs
    /\ ret = "RESULT bool=false double=3.125 int=-1337 str=test"

\* The names on the way to a value joined by dots; empty names in front of
\* the first one that is not empty add nothing, not even a dot.
RECURSIVE Joined(_)
Joined(path) ==
    IF path = <<>> THEN ""
    ELSE IF Len(path) = 1 THEN path[1]
    ELSE path[1] \o "." \o Joined(Tail(path))
RECURSIVE Dotted(_)
Dotted(path) ==
    IF path # <<>> /\ path[1] = "" THEN Dotted(Tail(path)) ELSE Joined(path)

\* The elements of a set, one after the other.
RECURSIVE SeqOf(_)
SeqOf(S) ==
    IF S = {} THEN <<>>
    ELSE LET x == CHOOSE x \in S : TRUE IN <<x>> \o SeqOf(S \ {x})

\* The numbers in a section of a document (metrics or data) reached by path,
\* each with its dot-joined path: the entries themselves, and for the entry
\* of an allocation meter the numbers in it.
RECURSIVE Leaves(_, _, _)
Leaves(path, section, ks) ==
    IF ks = <<>> THEN <<>>
    ELSE LET k == Head(ks)
         IN (IF k \in {key(c) : c \in Counters}
             THEN [i \in 1..Len(MetricFields) |->
                      [key |-> Dotted(path \o <<k, MetricFields[i]>>),
                       v |-> section[k][MetricFields[i]]]]
             ELSE <<[key |-> Dotted(path \o <<k>>), v |-> section[k]]>>)
            \o Leaves(path, section, Tail(ks))

\* The numbers under metrics and under data of a document and, behind the
\* names of the children, of the documents of its children.
RECURSIVE Flattened(_, _)
RECURSIVE FlattenedChildren(_, _, _)
Flattened(names, doc) ==
    (IF contains(doc, "metrics")
     THEN Leaves(names \o <<"metrics">>, doc["metrics"],
                 SeqOf(DOMAIN doc["metrics"]))
     ELSE <<>>)
    \o (IF contains(doc, "data")
        THEN Leaves(names \o <<"data">>, doc["data"], SeqOf(DOMAIN doc["data"]))
        ELSE <<>>)
    \o (IF contains(doc, "children")
        THEN FlattenedChildren(names, doc["children"], 1)
        ELSE <<>>)
FlattenedChildren(names, cs, i) ==
    IF i > Len(cs) THEN <<>>
    ELSE Flattened(names \o <<cs[i]["name"]>>, cs[i])
            \o FlattenedChildren(names, cs, i + 1)

\* The pairs got are those of the numbers exp, each as often, with the
\* number in decimal as the value.
SamePairs(got, exp) ==
    /\ Len(got) = Len(exp)
    /\ \A i \in 1..Len(exp) :
        Cardinality({j \in 1..Len(got) :
                        /\ got[j].key = exp[i].key
                        /\ got[j].from.v = exp[i].v})
            = Cardinality({j \in 1..Len(exp) : exp[j] = exp[i]})
    /\ \A j \in 1..Len(got) :
        got[j].value \in {ToString(got[j].from.v),
                          ToString(got[j].from.v) \o ".0"}

\* add(phase) has returned.
PhaseAdded == pc = <<>> /\ pcur.self = "R" /\ pcur.op = "add_phase"

\* The phase with the stopwatches, which was written to and has no child,
\* was added to the Result, and the Result was sorted and then printed
\* with str().
OwnPairsPrinted ==
    /\ pc = <<>> /\ pcur.self = "R" /\ pcur.op = "str"
    /\ result.sorted
    /\ \E i \in 1..Len(result.pairs_) : result.pairs_[i].key = "metrics.time"
    /\ phases["P"].children_ = <<>>
    /\ ~empty(phases["P"].data_)

\* C28: when add(phase) has returned, the Result holds one pair for every
\* number under metrics and under data of the phase's document and of the
\* documents of its children and their children, keyed by metrics or data
\* and the keys down to the number joined by dots, behind the names of the
\* children on the way; nothing else is in it, so neither a name nor a
\* section the document lacks.  The value is the number in decimal.  The
\* sorted line of a phase with a stopwatch, data and no child starts with
\* the pair of data.sum followed by the first metrics pair.
C28_Flattened ==
    /\ PhaseAdded =>
        SamePairs(result.pairs_, Flattened(<<>>, Expected(pcur.arg)))
    /\ OwnPairsPrinted =>
        LET t == "RESULT data.sum=" \o ToString(phases["P"].data_[DataKey])
                    \o " metrics."
        IN SubSeq(ret, 1, Len(t)) = t

\* The phase with meters, which was written to and has itself as it was
\* then as a child, was added: there are pairs of its own and pairs behind
\* the child's name.
C28_Witness ==
    /\ PhaseAdded
    /\ pcur.arg = "P"
    /\ Len(phases["P"].children_) = 1
    /\ \E i \in 1..Len(result.pairs_) : result.pairs_[i].key = "P.data.sum"
    /\ \E i \in 1..Len(result.pairs_) : result.pairs_[i].key = "data.sum"
    /\ \E i \in 1..Len(result.pairs_) :
        result.pairs_[i].key = "P.metrics.memory.peak"

\* The program is in the body of register_callback or unregister_callback.
InRegistryOp ==
    /\ pc # <<>>
    /\ Head(pc).op \in {"register_callback", "push_back", "register_end",
                        "unregister_callback", "unregister_end"}

\* C29: the guard is set only between its assignments in register_callback
\* and unregister_callback: it is clear whenever no call is being executed,
\* so before and after every registry operation, also a register_callback
\* on a registered listener, which never sets it, and an
\* unregister_callback on a listener that is not registered; and no
\* notification changes it.
C29_GuardWindow ==
    /\ [](critical_ =>
            /\ pc # <<>>
            /\ Head(pc).op \in {"push_back", "register_end", "unregister_end"})
    /\ [][/\ IsNotify => critical_' = critical_
          /\ (At("register_callback") /\ registered_[Self] /\ pc' # pc) =>
                ~critical_']_vars

\* register_callback was called on a listener that was registered and has
\* returned, after a notification was dispatched with the guard clear.
C29_Witness ==
    /\ pc = <<>>
    /\ cur.op = "register_callback"
    /\ InRegistry(cur.reg, cur.self)
    /\ ~critical_
    /\ events > 0

\* C30: an allocation or free event raised inside register_callback or
\* unregister_callback calls no listener and leaves the call where it was
\* and the list as it was; no step of these functions, nor an event raised
\* inside them, changes an accumulator; when register_callback has returned
\* the listener is in the list, once, and when unregister_callback has
\* returned it is not; and a call that has begun returns.
C30_NestedDropped ==
    /\ [][InRegistryOp =>
            /\ counters' = counters
            /\ IsNotify =>
                /\ critical_
                /\ calls' = <<>>
                /\ UNCHANGED <<pc, registry_, registered_>>]_vars
    /\ []((pc = <<>> /\ cur.op = "register_callback") =>
            /\ registered_[cur.self]
            /\ Cardinality({i \in 1..Len(registry_) :
                               registry_[i] = cur.self}) = 1)
    /\ []((pc = <<>> /\ cur.op = "unregister_callback") =>
            /\ ~registered_[cur.self]
            /\ ~InRegistry(registry_, cur.self))
    /\ InRegistryOp ~> (pc = <<>>)

\* An allocation was notified while a listener was being added to the list
\* next to a running meter, and register_callback has returned.
C30_Witness ==
    /\ pc = <<>>
    /\ cur.op = "register_callback"
    /\ note.kind = "malloc"
    /\ note.guard
    /\ ~InRegistry(cur.reg, cur.self)
    /\ InRegistry(registry_, cur.self)
    /\ \E l \in Counters : InRegistry(registry_, l) /\ counters[l].active_


\* C31: a phase whose meters are only driven through its own start, pause,
\* resume and stop never has a later-declared meter running while an
\* earlier-declared one is not, in any state, those between two meter calls
\* of one phase operation included: a stopwatch whose last clock reading was
\* taken by resume is preceded by an active allocation meter and by
\* stopwatches that are running too.
MeterRunning(m) == IF m \in Counters THEN counters[m].active_ ELSE wgh[m].on
C31_WindowsNested ==
    \A p \in Phases : \A i, j \in 1..num_meters(p) :
        (i < j /\ MeterRunning(Meters(p)[j])) => MeterRunning(Meters(p)[i])

\* In the middle of a stop: the last stopwatch is paused, the first is still
\* running, and so is the allocation meter.
C31_Witness ==
    /\ pc # <<>>
    /\ pcur.op = "stop"
    /\ pcur.self = "P"
    /\ ~wgh["s2"].on
    /\ wgh["s1"].on
    /\ counters["c1"].active_
    /\ registry_ = <<"c1">>


\* C32: stop() has exactly the effect of pause() on either meter: of two
\* meters given the same calls, the same notifications and the same clock
\* readings, but pause in place of every stop for the second, both have the
\* same accumulators, activity and registration, and both stopwatches the
\* same segment start and accumulated duration, whenever the calls have
\* returned; no step of a resume() changes an accumulator or the accumulated
\* duration, after a stop as after a pause, and when it has returned the
\* meter listens again and the stopwatch has a new segment start.
C32_StopIsPause ==
    /\ [](pc = <<>> =>
            /\ counters["c1"] = counters["c2"]
            /\ registered_["c1"] = registered_["c2"]
            /\ InRegistry(registry_, "c1") = InRegistry(registry_, "c2")
            /\ sw["s1"] = sw["s2"]
            /\ elapsed_time_millis(sw["s1"]) = elapsed_time_millis(sw["s2"])
            /\ pcur.op = "resume" =>
                  \A l \in Counters :
                      counters[l].active_ /\ InRegistry(registry_, l))
    /\ [][(pcur.op = "resume" /\ At("sw_resume") /\ pc' # pc) =>
            sw'[Self].start_ = now]_vars
    /\ [][(pcur.op = "resume" /\ pc' # pc /\ pc # <<>>) =>
            /\ \A l \in Counters : Acc(counters'[l]) = Acc(counters[l])
            /\ \A w \in Watches : sw'[w].elapsed_ = sw[w].elapsed_]_vars

\* A meter that counted was stopped, its twin paused, both resumed, and both
\* counted the next allocation on top.
C32_Witness ==
    /\ pc = <<>>
    /\ pcur = [op |-> "resume", self |-> "twins", arg |-> "stop"]
    /\ note.kind = "malloc"
    /\ counters["c1"].alloc_num_ = 2
    /\ counters["c2"].alloc_num_ = 2
    /\ registry_ = <<"c1", "c2">>
    /\ sw["s1"].elapsed_ = 1
    /\ sw["s2"].start_ = 3


\* C36 as claimed: whatever the calls made on a stopwatch, pause or stop of
\* a paused stopwatch included, the accumulated duration contains no time
\* that passed between a pause and the next resume or start: it is at most
\* the time the stopwatch was running since its last start.
C36_OnlyRunningTime ==
    \A w \in OwnWatches : pc = <<>> => sw[w].elapsed_ <= wgh[w].run

\* start, one tick, pause, one tick, pause: the stopwatch ran for one tick
\* and shows three.
C36_Witness ==
    /\ WatchReturned("s1", "pause")
    /\ wgh["s1"].st = "off"
    /\ ~wgh["s1"].on
    /\ wgh["s1"].run = 1
    /\ wgh["s1"].hi = 1
    /\ wgh["s1"].idle = 1
    /\ now = 3
    /\ sw["s1"] = [start_ |-> 1, elapsed_ |-> 3]


\* C37: on an allocation meter, no step of a pause() or stop() of an inactive
\* meter and no step of a resume() of an active meter changes an
\* accumulator, an active flag, the listener list, a registered flag or the
\* guard; a start() of an active meter sets the meter's six accumulators to
\* zero and changes nothing else: the list is the same in every step, so
\* the meter keeps its one entry at the place it had, and when start has
\* returned the accumulators are zero and the meter is in the list once.
C37_Idempotent ==
    /\ [][(pc # <<>> /\ pc' # pc /\ cur.self \in Counters) =>
            LET l == cur.self IN
            /\ (cur.op \in {"pause", "stop"} /\ ~counters[l].active_) =>
                  UNCHANGED <<registry_, critical_, registered_, counters>>
            /\ (cur.op = "resume" /\ counters[l].active_) =>
                  UNCHANGED <<registry_, critical_, registered_, counters>>
            /\ (cur.op = "start" /\ counters[l].active_) =>
                  /\ UNCHANGED <<registry_, critical_, registered_>>
                  /\ counters' =
                        IF At("start")
                        THEN [counters EXCEPT ![l] =
                                [active_ |-> TRUE, current_ |-> 0, peak_ |-> 0,
                                 alloc_num_ |-> 0, alloc_bytes_ |-> 0,
                                 free_num_ |-> 0, free_bytes_ |-> 0]]
                        ELSE counters]_vars
    /\ [](\A l \in Counters : (pc = <<>> /\ cur.op = "start" /\ cur.self = l) =>
            /\ Acc(counters[l]) = Zero
            /\ counters[l].active_
            /\ Cardinality({i \in 1..Len(registry_) : registry_[i] = l}) = 1)

\* In a start of the first of two listening meters, after the reset: the
\* meter is still the first entry of the list, its accumulators are zero and
\* the second meter, which began to listen after it, has counted two events.
C37_Witness ==
    /\ pc = <<Instr("resume", "c1")>>
    /\ cur.op = "start"
    /\ cur.self = "c1"
    /\ counters["c1"].active_
    /\ Acc(counters["c1"]) = Zero
    /\ registry_ = <<"c1", "c2">>
    /\ counters["c2"].alloc_num_ = 2


\* The application's move into a meter, of a source that was active.
MovedActive ==
    /\ cur.op \in {"move_assign", "move_construct"}
    /\ cur.was

\* C34 as claimed: after any sequence of start, pause, resume, stop, move
\* construction, move assignment and destruction, an allocation meter is in
\* the registry if and only if its active flag is set.
C34_ListedIffActive ==
    \A l \in Counters :
        (pc = <<>> /\ alive[l]) =>
            (InRegistry(registry_, l) <=> counters[l].active_)

\* The callback of a meter whose active flag is clear was just invoked: the
\* meter is the only entry of the list.
C34_Witness ==
    /\ pc = <<>>
    /\ ~counters["c1"].active_
    /\ registered_["c1"]
    /\ registry_ = <<"c1">>
    /\ calls = <<<<"c1", "malloc", 2>>>>
    /\ counters["c1"].alloc_bytes_ = 2
    /\ alive["c2"]

\* C35: when the move of an active allocation meter has returned, the
\* destination holds the six accumulators the source had, is active and is
\* in the registry exactly once, and the source is inactive and not in the
\* registry; a notification raised from then on leaves the accumulators of
\* every meter outside the registry, the source among them, as they are, and
\* the next one is counted by the destination.
C35_MoveTransfers ==
    /\ []((pc = <<>> /\ MovedActive) =>
            LET a == cur.self
                b == cur.from
            IN /\ Acc(counters[a]) = cur.acc
               /\ counters[a].active_
               /\ registered_[a]
               /\ Cardinality({i \in 1..Len(registry_) : registry_[i] = a}) = 1
               /\ ~counters[b].active_
               /\ ~registered_[b]
               /\ ~InRegistry(registry_, b))
    /\ [][IsNotify =>
            \A l \in Counters :
                ~InRegistry(registry_, l) => counters'[l] = counters[l]]_vars
    /\ [][(IsNotify /\ pc = <<>> /\ MovedActive) =>
            /\ counters'[cur.from] = counters[cur.from]
            /\ counters'[cur.self] =
                  IF note'.kind = "malloc"
                  THEN on_alloc(counters[cur.self], note'.bytes)
                  ELSE on_free(counters[cur.self], note'.bytes)]_vars

\* A meter that counted two allocations was moved into a new one, which is
\* now the only entry of the list.
C35_Witness ==
    /\ pc = <<>>
    /\ cur.op = "move_construct"
    /\ cur.was
    /\ cur.self = "c2"
    /\ counters["c2"].alloc_num_ = 2
    /\ counters["c1"].alloc_num_ = 2
    /\ registry_ = <<"c2">>


\* A thread is inside register_callback or unregister_callback.
InRegistryCall(c) ==
    /\ c # <<>>
    /\ Head(c).op \in {"register_callback", "push_back", "register_end",
                       "unregister_callback", "unregister_end"}

\* The guard is set exactly while a thread is between critical_ = true and
\* critical_ = false.
GuardExact == critical_ <=> (Guarded(pc) \/ Guarded(pc2))

\* C33: the guard is all the protection there is.  It is exact at the start
\* and every step a thread takes while the other thread is outside
\* register_callback and unregister_callback keeps it exact, so it is exact
\* as long as the registry operations are serialized; a notification looks
\* at the guard only: with the guard clear it is dispatched to the list as
\* it is, and unregister_callback and the end of register_callback clear
\* the guard, wherever the other thread is.  (The state in which the guard
\* was cleared under a thread that is about to push_back and a notification
\* is dispatched is C33_Witness.)
C33_NoMutualExclusion ==
    /\ GuardExact
    /\ [][(GuardExact /\ ~InRegistryCall(pc2) /\ pc2' = pc2) =>
            GuardExact']_vars
    /\ [][IsNotify =>
            calls' = IF critical_ THEN <<>>
                     ELSE [i \in 1..Len(registry_) |->
                             <<registry_[i], note'.kind, note'.bytes>>]]_vars
    /\ [][((At("unregister_end") \/ At("register_end")) /\ pc' = Tail(pc)) =>
            ~critical_']_vars

\* A thread is between critical_ = true and its push_back, the guard has
\* been cleared by the other thread, and a notification raised by that
\* thread was just dispatched to the listener in the list.
C33_Witness ==
    /\ shim.fault # "crash"
    /\ pc = <<>>
    /\ pc2 # <<>>
    /\ Head(pc2).op = "push_back"
    /\ ~critical_
    /\ ~note.guard
    /\ calls = <<<<"c1", "malloc", 1>>>>
    /\ counters["c1"].alloc_num_ = 1


\* C38 as claimed: every pointer the shim hands to the real allocator's free
\* or realloc while serving a call on one of its own blocks is the address
\* of a block the real allocator returned and has not released yet, also
\* when the block came from aligned_alloc with a header offset above zero.
C38_LivePointers ==
    [][((At("libc_free") \/ At("libc_realloc")) /\ pc' # pc
            /\ shim.given.managed /\ shim.fault = "none") =>
         LET p == IF At("libc_free") THEN Head(pc).i ELSE Head(pc).i[1]
         IN \E b \in shim.blocks : b.base = p]_vars

\* realloc of a block of aligned_alloc(16, 8): the real allocator placed its
\* block at 16, the header lies at 24, and 24 is what the real realloc was
\* given; the block at 16 is still in use.
C38_Witness ==
    /\ pcur.self = "shim"
    /\ pcur.op = "realloc"
    /\ shim.given = [base |-> 16, size |-> 8, managed |-> TRUE, zero |-> FALSE]
    /\ shim.arg = 48
    /\ shim.seen = [magic |-> MEMBLOCK_MAGIC, size |-> 8, offset |-> 8]
    /\ shim.req = <<<<"realloc", 24, 25>>>>
    /\ shim.fault = "corrupt"
    /\ \E b \in shim.blocks : b.base = 16

\* C40 as claimed: calloc(num, size), with the product taken in size_t,
\* returns null without a notification when the product is 0 and otherwise a
\* block of the shim of at least that many bytes, zero-filled, with exactly
\* one allocation notification of that many bytes (null only if the real
\* allocator has no block to give).
C40_Calloc ==
    ShimEnded("calloc") =>
        LET n == (pcur.arg[1] * pcur.arg[2]) % SizeMod IN
        /\ shim.fault # "crash"
        /\ n = 0 => shim.result = NULL /\ shim.notes = <<>> /\ shim.req = <<>>
        /\ (n # 0 /\ shim.result = NULL) => shim.notes = <<>>
        /\ (n # 0 /\ shim.result # NULL) =>
              /\ shim.notes = <<<<"malloc", n>>>>
              /\ contains(shim.owned, shim.result)
              /\ shim.owned[shim.result].managed
              /\ shim.owned[shim.result].zero
              /\ shim.owned[shim.result].size = n
              /\ \E b \in shim.blocks :
                    /\ b.base = shim.owned[shim.result].base
                    /\ shim.result = b.base + sizeof_BlockHeader
                    /\ b.len >= sizeof_BlockHeader + n

\* calloc(129, 2), whose product wraps to 2, asked the real allocator for 26
\* bytes and got none: the process was killed in memset.
C40_Witness ==
    /\ ShimEnded("calloc")
    /\ pcur.arg = <<(SizeMod \div 2) + 1, 2>>
    /\ shim.size = 2
    /\ shim.req = <<<<"malloc", 2 + sizeof_BlockHeader>>>>
    /\ shim.ptr = NULL
    /\ shim.notes = <<>>
    /\ shim.fault = "crash"


\* The sum of the sizes asked for of the blocks of the shim held through the
\* pointers in S.
RECURSIVE SumOfSizes(_)
SumOfSizes(S) ==
    IF S = {} THEN 0
    ELSE LET p == CHOOSE x \in S : TRUE
         IN shim.owned[p].size + SumOfSizes(S \ {p})

\* No allocation of the C library has failed and no call has gone wrong: a
\* failed one leaves the header that was written at address NULL + offset.
AllSucceeded == shim.fault = "none" /\ ~contains(shim.hdr, NULL)

\* C39: with one meter listening throughout and the guard never set, when a
\* call of the shim has returned after successful calls only, the bytes
\* notified as allocated minus the
\* bytes notified as freed are the sum of the sizes asked for of the blocks
\* of the shim the application holds, and the free notification raised for a
\* block carries the size of the block's last allocation notification.
C39_Tally ==
    /\ [](~critical_ /\ registry_ = <<"c1">>)
    /\ []((pc = <<>> /\ AllSucceeded) =>
            counters["c1"].alloc_bytes_ - counters["c1"].free_bytes_
                = SumOfSizes({p \in DOMAIN shim.owned : shim.owned[p].managed}))
    /\ [][(At("on_free") /\ pc' # pc /\ AllSucceeded) =>
            /\ Head(pc).i = shim.given.size
            /\ counters'["c1"].free_bytes_
                  = counters["c1"].free_bytes_ + shim.given.size
            /\ counters'["c1"].free_num_ = counters["c1"].free_num_ + 1]_vars

\* After four allocations and two releases the application holds a block of
\* 1 byte that came from realloc and a zero-filled one of 2 bytes.
C39_Witness ==
    /\ pc = <<>>
    /\ AllSucceeded
    /\ counters["c1"].alloc_num_ = MaxCalls
    /\ counters["c1"].free_num_ = 2
    /\ counters["c1"].alloc_bytes_ - counters["c1"].free_bytes_ = 3
    /\ \E p, q \in DOMAIN shim.owned :
          /\ shim.owned[p].size = 1
          /\ shim.owned[q].size = 2
          /\ shim.owned[q].zero
    /\ pcur.op = "realloc"

====
